---------------------------- MODULE Spec2Model ----------------------------
(***************************************************************************)
(* A model of onedata/ioreplay: the trace parser that rebuilds system      *)
(* calls from recorded FUSE events, the preparation of the environment on  *)
(* the mount and the replay of the rebuilt calls.                          *)
(*                                                                         *)
(* The repository holds the parser twice: class IOTraceParser of           *)
(* ioreplay/parser.py (with ioreplay/operations.py) and class              *)
(* IOTraceParser of ioreplay/ioreplay.py, the module of the console        *)
(* script.  The variable impl says which of the two classes is running;    *)
(* every handler in which they differ is modelled once per class.          *)
(*                                                                         *)
(* A field of a trace line is text.  Text is a TLA+ string; int() is the   *)
(* table Numeral.  A path is the sequence of its components ("" is <<>>,   *)
(* "a/b" is <<"a", "b">>).  A mutable list [known, unknown] of a directory *)
(* lives in the heap sizes, and a File of a directory holds its address,   *)
(* so that two Files sharing one list (rename) are modelled as sharing.    *)
(***************************************************************************)
EXTENDS Integers, Sequences, FiniteSets, TLC

VARIABLES
    impl,             \* "parser": parser.py's class; "ioreplay": ioreplay.py's
    pc,               \* position in main(): "mount", "lines", "done",
                      \* "prepared"; "exit" after sys.exit(1); "ValueError",
                      \* "IndexError" after an exception that ends parse()
    syscalls,         \* self.syscalls
    io_duration,      \* self.io_duration
    start_timestamp,  \* self.start_timestamp
    end_timestamp,    \* self.end_timestamp
    mount_dir_uuid,   \* self.mount_dir_uuid ("None" before the mount line)
    root_dir,         \* self.root_dir (OrderedDict)
    initial_files,    \* self.initial_files (OrderedDict)
    _current_files,   \* self._current_files (OrderedDict)
    sizes,            \* heap of the [known_children, unknown_children] lists
    _open_fds,        \* self._open_fds
    _pending_lookups, \* self._pending_lookups
    nlines,           \* number of data lines processed so far
    last_key,         \* sort key of the data line processed last
    last,             \* what the data line processed last did (history)
    mount_path,       \* the directory tree at mount_path
    run,              \* the caller that parses one file twice (see NoRun)
    sc_index,         \* replay: position of sc in parser.syscalls
    delays,           \* replay: delays
    replayed,         \* replay: its local io_duration
    issued,           \* replay: what each turn of the loop did (history)
    trace_file,       \* the trace file that sort_trace_file rewrites
    ctx               \* replay: ctx (the keys of fds, and scandirs)

vars == <<impl, pc, syscalls, io_duration, start_timestamp, end_timestamp,
          mount_dir_uuid, root_dir, initial_files, _current_files, sizes,
          _open_fds, _pending_lookups, nlines, last_key, last, mount_path,
          run, sc_index, delays, replayed, issued, trace_file, ctx>>

\* The local state of replay().
replay_vars == <<sc_index, delays, replayed, issued, ctx>>

----------------------------------------------------------------------------
(* Bounds of the model.                                                    *)

\* Largest number of data lines of a trace.
MaxLines == 3

\* Largest number of data lines of a trace of opens, closes and syncs.
MaxHandleLines == 5

\* Largest number of data lines of a trace of lookups and readdirs.
MaxEnvLines == 5

\* Largest number of data lines of a trace of renames and unlinks.
MaxTreeLines == 4

\* Largest number of data lines of a trace with lines that do not parse.
MaxRejectLines == 4

\* Largest number of data lines of a trace that is parsed twice.
MaxRepeatLines == 3

\* Largest number of data lines of a trace that is replayed.
MaxReplayLines == 3

\* Largest number of data lines of a trace with lines of several lengths.
MaxFormatLines == 3

\* Largest number of data lines of a trace whose handles are replayed.
MaxFdLines == 3

\* Largest number of data lines of a trace file that is sorted, largest
\* chunk size, and largest number of runs of the sort on one file.
MaxSortLines == 3

MaxChunkSize == 3

MaxSorts == 2

----------------------------------------------------------------------------
(* Program constants.                                                      *)

\* parser.py:24 and ioreplay.py:36.  The comment above it gives the unit as
\* microseconds; it is compared with differences of nanosecond values.
CTX_SWITCH_DELAY == 250

\* len(IO_ENTRY_FIELDS)
IO_ENTRY_FIELDS_NUM == 13

\* self.masked_files: no -l option was given.
masked_files == [p \in {} |-> <<>>]

----------------------------------------------------------------------------
(* Text and numbers.                                                       *)

\* The decimal numerals that occur in the traces of the model.
Numeral == [s \in {"0", "1", "2", "3", "4", "5", "7", "10", "250", "251"} |->
              CASE s = "0" -> 0 [] s = "1" -> 1 [] s = "2" -> 2 [] s = "3" -> 3
                [] s = "4" -> 4 [] s = "5" -> 5 [] s = "7" -> 7 [] s = "10" -> 10
                [] s = "250" -> 250 [] s = "251" -> 251]

\* int(text) raises ValueError unless the text is a numeral.
IsInt(text) == text \in DOMAIN Numeral

int(text) == Numeral[text]

Min(S) == CHOOSE x \in S : \A y \in S : x <= y

Max(S) == CHOOSE x \in S : \A y \in S : y <= x

max(a, b) == IF a >= b THEN a ELSE b

\* The size and the offset of a read or a write are kept with their Python
\* type: an int, or the str that from_str split off the line.
py_int(n) == <<"int", n>>

py_str(text) == <<"str", text>>

\* annotation(val) of the wrapper of a syscall, for the annotation int: a
\* str is converted when the syscall is called, and int(val) raises
\* ValueError unless the text is a numeral.
CanConvert(val) == val[1] = "int" \/ IsInt(val[2])

annotation(val) == IF val[1] = "int" THEN val[2] ELSE int(val[2])

----------------------------------------------------------------------------
(* Trace lines and IOEntry.                                                *)

\* A line of the trace: the list line.split(',').
Line(timestamp, op, duration, uuid, handle_id, args) ==
    <<timestamp, op, duration, uuid, handle_id, "0">> \o args

\* A line with the seven arguments arg0 .. arg6, the first of them given.
Line13(timestamp, op, duration, uuid, handle_id, args) ==
    Line(timestamp, op, duration, uuid, handle_id,
         [i \in 1..7 |-> IF i <= Len(args) THEN args[i] ELSE ""])

\* IOEntry.from_str of parser.py: 12 fields are padded to 13, any other
\* number raises; timestamp, duration, handle_id and retries go through int().
from_str(fields) ==
    LET fields_num == Len(fields)
        padded == IF fields_num = IO_ENTRY_FIELDS_NUM - 1
                  THEN Append(fields, "") ELSE fields
    IN  IF fields_num \notin {IO_ENTRY_FIELDS_NUM - 1, IO_ENTRY_FIELDS_NUM}
        THEN [raised |-> TRUE]
        ELSE IF ~(IsInt(padded[1]) /\ IsInt(padded[3]) /\ IsInt(padded[5])
                  /\ IsInt(padded[6]))
        THEN [raised |-> TRUE]
        ELSE [raised |-> FALSE,
              timestamp |-> int(padded[1]) * 1000,
              op |-> padded[2],
              duration |-> int(padded[3]) * 1000,
              uuid |-> padded[4],
              handle_id |-> int(padded[5]),
              retries |-> int(padded[6]),
              arg0 |-> padded[7], arg1 |-> padded[8], arg2 |-> padded[9],
              arg3 |-> padded[10], arg4 |-> padded[11], arg5 |-> padded[12],
              arg6 |-> padded[13]]

\* IOEntry.from_str of ioreplay.py: as above, but retries stays text.
from_str_ioreplay(fields) ==
    LET fields_num == Len(fields)
        padded == IF fields_num = IO_ENTRY_FIELDS_NUM - 1
                  THEN Append(fields, "") ELSE fields
    IN  IF fields_num \notin {IO_ENTRY_FIELDS_NUM - 1, IO_ENTRY_FIELDS_NUM}
        THEN [raised |-> TRUE]
        ELSE IF ~(IsInt(padded[1]) /\ IsInt(padded[3]) /\ IsInt(padded[5]))
        THEN [raised |-> TRUE]
        ELSE [raised |-> FALSE,
              timestamp |-> int(padded[1]) * 1000,
              op |-> padded[2],
              duration |-> int(padded[3]) * 1000,
              uuid |-> padded[4],
              handle_id |-> int(padded[5]),
              retries |-> padded[6],
              arg0 |-> padded[7], arg1 |-> padded[8], arg2 |-> padded[9],
              arg3 |-> padded[10], arg4 |-> padded[11], arg5 |-> padded[12],
              arg6 |-> padded[13]]

----------------------------------------------------------------------------
(* OrderedDict, File and the layered environment.                          *)

\* An OrderedDict is the sequence of its items in insertion order.
OD_has(od, key) == \E i \in 1..Len(od) : od[i].k = key

OD_get(od, key) == od[CHOOSE i \in 1..Len(od) : od[i].k = key].v

\* od[key] = value: a known key keeps its place.
OD_set(od, key, value) ==
    IF OD_has(od, key)
    THEN [i \in 1..Len(od) |-> IF od[i].k = key THEN [k |-> key, v |-> value]
                                                ELSE od[i]]
    ELSE Append(od, [k |-> key, v |-> value])

OD_keys(od) == {od[i].k : i \in 1..Len(od)}

\* File = namedtuple('File', ['path', 'type', 'size']).  The size of a file
\* of type 'f' is a number; any other size is the address of a list in sizes.
File(path, type, size) == [path |-> path, type |-> type, size |-> size]

\* No call of _take_pending_lookup was made.
NoTake == [called |-> FALSE, path |-> <<>>, before |-> <<>>,
           new_lookup |-> <<0, 0>>, taken |-> 0]

\* The state of the parser that the handlers read and write.
ParserState == [syscalls |-> syscalls, root_dir |-> root_dir,
                initial_files |-> initial_files,
                _current_files |-> _current_files, sizes |-> sizes,
                _open_fds |-> _open_fds, _pending_lookups |-> _pending_lookups,
                raised |-> FALSE, take |-> NoTake]

\* An exception leaves what the handler had already written.
Raise(s) == [s EXCEPT !.raised = TRUE]

\* uuid in self._env: ChainMap(_current_files, initial_files, root_dir).
InEnv(s, uuid) ==
    \/ OD_has(s._current_files, uuid)
    \/ OD_has(s.initial_files, uuid)
    \/ OD_has(s.root_dir, uuid)

\* self._env.get(uuid), for a uuid of the environment: the first layer wins.
EnvGet(s, uuid) ==
    IF OD_has(s._current_files, uuid) THEN OD_get(s._current_files, uuid)
    ELSE IF OD_has(s.initial_files, uuid) THEN OD_get(s.initial_files, uuid)
    ELSE OD_get(s.root_dir, uuid)

\* A write that would go to the initial layer.
EnvSet_Initial(s, uuid, file) ==
    [s EXCEPT !.initial_files = OD_set(@, uuid, file)]

\* self._env[uuid] = file: a ChainMap writes to its first map.
EnvSet(s, uuid, file) ==
    [s EXCEPT !._current_files = OD_set(@, uuid, file)]

\* A new list [0, 0]; its address is Len(s.sizes) + 1.
NewList(s) == [s EXCEPT !.sizes = Append(@, <<0, 0>>)]

\* file.size[i] += by, for a file whose size is a list.
AddToSize(s, file, i, by) ==
    [s EXCEPT !.sizes[file.size][i] = @ + by]

\* os.path.join(parent_path, name), then the mask.
_join_path(parent_path, name) ==
    LET path == Append(parent_path, name)
    IN  IF path \in DOMAIN masked_files THEN masked_files[path] ELSE path

----------------------------------------------------------------------------
(* The pending-lookup table.                                               *)

\* The window test of _take_pending_lookup for the pending lookup pl.
Fits(pl, timestamp) ==
    /\ 0 <= timestamp - (pl[1] + pl[2])
    /\ timestamp - (pl[1] + pl[2]) <= CTX_SWITCH_DELAY

\* The positions of the list whose entry passes the window test.
Fitting(queue, timestamp) ==
    {i \in 1..Len(queue) : Fits(queue[i], timestamp)}

\* A search that would run from the tail of the list.
FirstFit_FromTail(queue, timestamp) == Max(Fitting(queue, timestamp))

\* for pl in pending_lookups_for_path: the loop runs from the head of the
\* list and stops at the first entry that fits.
FirstFit(queue, timestamp) == Min(Fitting(queue, timestamp))

\* A removal that would leave the entry in the list.
ListRemove_Kept(queue, pl) == queue

\* list.remove(pl): the first entry equal to pl goes.
ListRemove(queue, pl) ==
    LET j == Min({i \in 1..Len(queue) : queue[i] = pl})
    IN  [i \in 1..(Len(queue) - 1) |-> IF i < j THEN queue[i] ELSE queue[i + 1]]

\* list.insert(0, x)
InsertFront(queue, x) == <<x>> \o queue

\* self._pending_lookups.get(path, [])
PendingFor(pending, path) ==
    IF path \in DOMAIN pending THEN pending[path] ELSE <<>>

\* A fusion that would keep the duration of the event.
Fused_KeepsDuration(pl, timestamp, duration) == <<pl[1], duration>>

\* A fusion that would give the event the timing of the lookup.
Fused_LookupOnly(pl, timestamp, duration) == <<pl[1], pl[2]>>

\* The timing a handler gets from a fused lookup pl.
Fused(pl, timestamp, duration) == <<pl[1], timestamp + duration - pl[1]>>

\* A _take_pending_lookup that empties the queue of the path when it takes
\* an entry.
_take_pending_lookup_Clears(pending, path, timestamp, duration) ==
    LET pending_lookups_for_path == PendingFor(pending, path)
    IN  IF Fitting(pending_lookups_for_path, timestamp) = {}
        THEN [pending |-> pending, new_lookup |-> <<timestamp, duration>>,
              taken |-> 0]
        ELSE LET i == FirstFit(pending_lookups_for_path, timestamp)
                 pl == pending_lookups_for_path[i]
             IN  [pending |-> [pending EXCEPT ![path] = <<>>],
                  new_lookup |-> Fused(pl, timestamp, duration),
                  taken |-> i]

\* _take_pending_lookup: the table afterwards, the (timestamp, duration)
\* returned, and the position of the entry taken (0: none).
\* A _take_pending_lookup that forgets the pending lookups of the path when
\* none of them fits.
_take_pending_lookup_Forgets(pending, path, timestamp, duration) ==
    LET pending_lookups_for_path == PendingFor(pending, path)
    IN  IF Fitting(pending_lookups_for_path, timestamp) = {}
        THEN [pending |-> IF path \in DOMAIN pending
                          THEN [pending EXCEPT ![path] = <<>>] ELSE pending,
              new_lookup |-> <<timestamp, duration>>, taken |-> 0]
        ELSE LET i == FirstFit(pending_lookups_for_path, timestamp)
                 pl == pending_lookups_for_path[i]
             IN  [pending |-> [pending EXCEPT
                                 ![path] = ListRemove(pending_lookups_for_path, pl)],
                  new_lookup |-> Fused(pl, timestamp, duration),
                  taken |-> i]

_take_pending_lookup(pending, path, timestamp, duration) ==
    LET pending_lookups_for_path == PendingFor(pending, path)
    IN  IF Fitting(pending_lookups_for_path, timestamp) = {}
        THEN [pending |-> pending, new_lookup |-> <<timestamp, duration>>,
              taken |-> 0]
        ELSE LET i == FirstFit(pending_lookups_for_path, timestamp)
                 pl == pending_lookups_for_path[i]
             IN  [pending |-> [pending EXCEPT
                                 ![path] = ListRemove(pending_lookups_for_path, pl)],
                  new_lookup |-> Fused(pl, timestamp, duration),
                  taken |-> i]

\* A handler's call of _take_pending_lookup; s.take keeps what the call saw
\* and returned.
Take(s, path, entry) ==
    LET r == _take_pending_lookup(s._pending_lookups, path, entry.timestamp,
                                  entry.duration)
    IN  [s EXCEPT !._pending_lookups = r.pending,
                  !.take = [called |-> TRUE, path |-> path,
                            before |-> PendingFor(s._pending_lookups, path),
                            new_lookup |-> r.new_lookup, taken |-> r.taken]]

\* A lookup that queues nothing.
Enqueue_Dropped(s, path, x) == s

\* self._pending_lookups.setdefault(path, []).insert(0, x)
Enqueue(s, path, x) ==
    [s EXCEPT !._pending_lookups =
        IF path \in DOMAIN @ THEN [@ EXCEPT ![path] = InsertFront(@, x)]
        ELSE @ @@ (path :> <<x>>)]

\* self.syscalls.append(sc)
Emit(s, sc) == [s EXCEPT !.syscalls = Append(@, sc)]

----------------------------------------------------------------------------
(* The syscall records of operations.py (parser.py) and the tuples of      *)
(* ioreplay.py.  Both are records here; op is the class name for           *)
(* operations.py and the first element of the tuple for ioreplay.py.       *)

\* One syscall record or tuple: what follows the timing is kept in named fields.
Syscall(op, timestamp, duration, rest) ==
    [op |-> op, timestamp |-> timestamp, duration |-> duration] @@ rest

\* The syscalls that close a handle, open one, and sync one.
IsClose(sc) == sc.op \in {"Release", "release"}

IsOpen(sc) == sc.op \in {"Open", "open", "Create", "create"}

IsSync(sc) == sc.op \in {"Fsync", "fsync", "fdatasync"}

----------------------------------------------------------------------------
(* The handlers of class IOTraceParser in parser.py.  Each maps the state  *)
(* s and the entry to the state the handler leaves; s.raised says that it  *)
(* ended with an exception.                                                *)

\* _get_file raises ValueError for a uuid that no layer holds.
_get_file(s, uuid) == EnvGet(s, uuid)

\* file.size[i] raises TypeError when size is a number.
Subscriptable(file) == file.type # "f"

lookup(s, entry) ==
    LET file_type == entry.arg2
        uuid == entry.arg1
    IN  IF file_type = "f" /\ ~IsInt(entry.arg3) THEN Raise(s)
        ELSE IF ~InEnv(s, entry.uuid) THEN Raise(s)
        ELSE
        LET parent_dir == _get_file(s, entry.uuid)
            path == _join_path(parent_dir.path, entry.arg0)
            s1 == IF InEnv(s, uuid) THEN s
                  ELSE IF ~Subscriptable(parent_dir) THEN Raise(s)
                  ELSE
                  LET s_a == AddToSize(AddToSize(s, parent_dir, 1, 1),
                                       parent_dir, 2, -1)
                      s_b == IF file_type = "f" THEN s_a ELSE NewList(s_a)
                      file == File(path, file_type,
                                   IF file_type = "f" THEN int(entry.arg3)
                                   ELSE Len(s_b.sizes))
                  IN  IF entry.uuid = mount_dir_uuid
                      THEN [s_b EXCEPT !.root_dir = OD_set(@, uuid, file)]
                      ELSE [s_b EXCEPT !.initial_files = OD_set(@, uuid, file)]
        IN  IF s1.raised THEN s1
            ELSE LET s2 == Take(s1, parent_dir.path, entry)
                 IN  Enqueue(s2, path, s2.take.new_lookup)

getattr(s, entry) ==
    IF ~InEnv(s, entry.uuid) THEN Raise(s)
    ELSE LET path == _get_file(s, entry.uuid).path
             s1 == Take(s, path, entry)
         IN  Emit(s1, Syscall("GetAttr", s1.take.new_lookup[1],
                              s1.take.new_lookup[2], [path |-> path]))

setattr(s, entry) ==
    IF ~(IsInt(entry.arg0) /\ IsInt(entry.arg1) /\ IsInt(entry.arg2)
         /\ IsInt(entry.arg3) /\ IsInt(entry.arg4)) THEN Raise(s)
    ELSE IF ~InEnv(s, entry.uuid) THEN Raise(s)
    ELSE LET path == _get_file(s, entry.uuid).path
             s1 == Take(s, path, entry)
         IN  Emit(s1, Syscall("SetAttr", s1.take.new_lookup[1],
                              s1.take.new_lookup[2],
                              [path |-> path, mask |-> int(entry.arg0),
                               mode |-> int(entry.arg1), size |-> int(entry.arg2),
                               atime |-> int(entry.arg3),
                               mtime |-> int(entry.arg4)]))

\* A readdir that would not skip the probe of the end of a directory.
readdir_NoSkip(s, entry) ==
    IF ~(IsInt(entry.arg1) /\ IsInt(entry.arg2)) THEN Raise(s)
    ELSE IF ~InEnv(s, entry.uuid) THEN Raise(s)
    ELSE
    LET offset == int(entry.arg1)
        entries_num == int(entry.arg2)
        directory == _get_file(s, entry.uuid)
        s2 == Take(s, directory.path, entry)
    IN  Emit(s2, Syscall("ReadDir", s2.take.new_lookup[1],
                         s2.take.new_lookup[2],
                         [path |-> directory.path, offset |-> offset,
                          entries_num |-> entries_num]))

readdir(s, entry) ==
    IF ~(IsInt(entry.arg1) /\ IsInt(entry.arg2)) THEN Raise(s)
    ELSE
    LET offset == int(entry.arg1)
        entries_num == int(entry.arg2)
    IN  IF offset > 0 /\ entries_num = 0 THEN s
        ELSE IF ~InEnv(s, entry.uuid) THEN Raise(s)
        ELSE
        LET directory == _get_file(s, entry.uuid)
            s1 == IF entry.uuid = mount_dir_uuid THEN s
                  ELSE IF ~Subscriptable(directory) THEN Raise(s)
                  ELSE LET size == offset + entries_num - 2
                                   - s.sizes[directory.size][1]
                       IN  [s EXCEPT !.sizes[directory.size][2] = max(size, @)]
        IN  IF s1.raised THEN s1
            ELSE LET s2 == Take(s1, directory.path, entry)
                 IN  Emit(s2, Syscall("ReadDir", s2.take.new_lookup[1],
                                      s2.take.new_lookup[2],
                                      [path |-> directory.path,
                                       offset |-> offset,
                                       entries_num |-> entries_num]))

open(s, entry) ==
    IF ~IsInt(entry.arg0) THEN Raise(s)
    ELSE IF ~InEnv(s, entry.uuid) THEN Raise(s)
    ELSE LET path == _get_file(s, entry.uuid).path
             s1 == Take(s, path, entry)
             s2 == [s1 EXCEPT !._open_fds = @ \cup {entry.handle_id}]
         IN  Emit(s2, Syscall("Open", s1.take.new_lookup[1],
                              s1.take.new_lookup[2],
                              [path |-> path, flags |-> int(entry.arg0),
                               handle_id |-> entry.handle_id]))

flush(s, entry) == s

create(s, entry) ==
    IF ~(IsInt(entry.arg2) /\ IsInt(entry.arg3)) THEN Raise(s)
    ELSE IF ~InEnv(s, entry.uuid) THEN Raise(s)
    ELSE
    LET parent_dir == _get_file(s, entry.uuid)
    IN  IF ~Subscriptable(parent_dir) THEN Raise(s)
        ELSE
        LET s1 == AddToSize(s, parent_dir, 1, 1)
            path == _join_path(parent_dir.path, entry.arg0)
            s2 == EnvSet(s1, entry.arg1, File(path, "f", 0))
            s3 == Take(s2, parent_dir.path, entry)
            s4 == [s3 EXCEPT !._open_fds = @ \cup {entry.handle_id}]
        IN  Emit(s4, Syscall("Create", s3.take.new_lookup[1],
                             s3.take.new_lookup[2],
                             [path |-> path, flags |-> int(entry.arg3),
                              mode |-> int(entry.arg2),
                              handle_id |-> entry.handle_id]))

mkdir(s, entry) ==
    IF ~IsInt(entry.arg2) THEN Raise(s)
    ELSE IF ~InEnv(s, entry.uuid) THEN Raise(s)
    ELSE
    LET parent_dir == _get_file(s, entry.uuid)
    IN  IF ~Subscriptable(parent_dir) THEN Raise(s)
        ELSE
        LET s1 == NewList(AddToSize(s, parent_dir, 1, 1))
            path == _join_path(parent_dir.path, entry.arg0)
            s2 == EnvSet(s1, entry.arg1, File(path, "d", Len(s1.sizes)))
            s3 == Take(s2, parent_dir.path, entry)
        IN  Emit(s3, Syscall("MkDir", s3.take.new_lookup[1],
                             s3.take.new_lookup[2],
                             [path |-> path, mode |-> int(entry.arg2)]))

mknod(s, entry) ==
    IF ~IsInt(entry.arg2) THEN Raise(s)
    ELSE IF ~InEnv(s, entry.uuid) THEN Raise(s)
    ELSE
    LET parent_dir == _get_file(s, entry.uuid)
    IN  IF ~Subscriptable(parent_dir) THEN Raise(s)
        ELSE
        LET s1 == AddToSize(s, parent_dir, 1, 1)
            path == _join_path(parent_dir.path, entry.arg0)
            s2 == EnvSet(s1, entry.arg1, File(path, "f", 0))
            s3 == Take(s2, parent_dir.path, entry)
        IN  Emit(s3, Syscall("MkNod", s3.take.new_lookup[1],
                             s3.take.new_lookup[2],
                             [path |-> path, mode |-> int(entry.arg2)]))

\* An unlink that would take the pending lookup of the parent's path.
unlink_ParentPath(s, entry) ==
    IF ~InEnv(s, entry.uuid) \/ ~InEnv(s, entry.arg1) THEN Raise(s)
    ELSE
    LET parent_dir == _get_file(s, entry.uuid)
        file == _get_file(s, entry.arg1)
        s2 == Take(AddToSize(s, parent_dir, 1, -1), parent_dir.path, entry)
    IN  Emit(s2, Syscall(IF file.type = "d" THEN "RmDir" ELSE "Unlink",
                         s2.take.new_lookup[1], s2.take.new_lookup[2],
                         [path |-> file.path]))

\* An unlink that would take the entry out of the environment.
unlink_Removes(s, entry) ==
    IF ~InEnv(s, entry.uuid) \/ ~InEnv(s, entry.arg1) THEN Raise(s)
    ELSE
    LET parent_dir == _get_file(s, entry.uuid)
        file == _get_file(s, entry.arg1)
        Without(od) == SelectSeq(od, LAMBDA item : item.k # entry.arg1)
        s1 == [AddToSize(s, parent_dir, 1, -1) EXCEPT
                  !.root_dir = Without(@), !.initial_files = Without(@),
                  !._current_files = Without(@)]
        s2 == Take(s1, file.path, entry)
    IN  Emit(s2, Syscall(IF file.type = "d" THEN "RmDir" ELSE "Unlink",
                         s2.take.new_lookup[1], s2.take.new_lookup[2],
                         [path |-> file.path]))

unlink(s, entry) ==
    IF ~InEnv(s, entry.uuid) THEN Raise(s)
    ELSE
    LET parent_dir == _get_file(s, entry.uuid)
    IN  IF ~Subscriptable(parent_dir) THEN Raise(s)
        ELSE
        LET s1 == AddToSize(s, parent_dir, 1, -1)
        IN  IF ~InEnv(s1, entry.arg1) THEN Raise(s1)
            ELSE
            LET file == _get_file(s1, entry.arg1)
                s2 == Take(s1, file.path, entry)
            IN  Emit(s2, Syscall(IF file.type = "d" THEN "RmDir" ELSE "Unlink",
                                 s2.take.new_lookup[1], s2.take.new_lookup[2],
                                 [path |-> file.path]))

\* A rename that would leave the count of the source parent alone.
rename_KeepsSource(s, entry) ==
    IF ~(InEnv(s, entry.uuid) /\ InEnv(s, entry.arg1) /\ InEnv(s, entry.arg2))
    THEN Raise(s)
    ELSE
    LET src_parent_dir == _get_file(s, entry.uuid)
        src_file == _get_file(s, entry.arg1)
        src_path == _join_path(src_parent_dir.path, entry.arg0)
        dst_parent_dir == _get_file(s, entry.arg2)
        dst_path == _join_path(dst_parent_dir.path, entry.arg3)
        s3 == EnvSet(AddToSize(s, dst_parent_dir, 1, 1), entry.arg4,
                     File(dst_path, src_file.type, src_file.size))
        s4 == Take(s3, src_path, entry)
    IN  Emit(s4, Syscall("Rename", s4.take.new_lookup[1],
                         s4.take.new_lookup[2],
                         [src_path |-> src_path, dst_path |-> dst_path]))

rename(s, entry) ==
    IF ~InEnv(s, entry.uuid) THEN Raise(s)
    ELSE
    LET src_parent_dir == _get_file(s, entry.uuid)
    IN  IF ~Subscriptable(src_parent_dir) THEN Raise(s)
        ELSE
        LET s1 == AddToSize(s, src_parent_dir, 1, -1)
        IN  IF ~InEnv(s1, entry.arg1) THEN Raise(s1)
            ELSE IF ~InEnv(s1, entry.arg2) THEN Raise(s1)
            ELSE
            LET src_file == _get_file(s1, entry.arg1)
                src_path == _join_path(src_parent_dir.path, entry.arg0)
                dst_parent_dir == _get_file(s1, entry.arg2)
            IN  IF ~Subscriptable(dst_parent_dir) THEN Raise(s1)
                ELSE
                LET s2 == AddToSize(s1, dst_parent_dir, 1, 1)
                    dst_path == _join_path(dst_parent_dir.path, entry.arg3)
                    s3 == EnvSet(s2, entry.arg4,
                                 File(dst_path, src_file.type, src_file.size))
                    s4 == Take(s3, src_path, entry)
                IN  Emit(s4, Syscall("Rename", s4.take.new_lookup[1],
                                     s4.take.new_lookup[2],
                                     [src_path |-> src_path,
                                      dst_path |-> dst_path]))

getxattr(s, entry) ==
    IF ~InEnv(s, entry.uuid) THEN Raise(s)
    ELSE LET path == _get_file(s, entry.uuid).path
             s1 == Take(s, path, entry)
         IN  Emit(s1, Syscall("GetXAttr", s1.take.new_lookup[1],
                              s1.take.new_lookup[2],
                              [path |-> path, attr |-> entry.arg0]))

\* os.XATTR_CREATE is 1 and os.XATTR_REPLACE is 2; int(entry.arg3) is
\* evaluated only when int(entry.arg2) is 0.
setxattr(s, entry) ==
    IF ~IsInt(entry.arg2) THEN Raise(s)
    ELSE IF int(entry.arg2) = 0 /\ ~IsInt(entry.arg3) THEN Raise(s)
    ELSE IF ~InEnv(s, entry.uuid) THEN Raise(s)
    ELSE LET flags == IF int(entry.arg2) # 0 THEN 1
                      ELSE IF int(entry.arg3) # 0 THEN 2 ELSE 0
             path == _get_file(s, entry.uuid).path
             s1 == Take(s, path, entry)
         IN  Emit(s1, Syscall("SetXAttr", s1.take.new_lookup[1],
                              s1.take.new_lookup[2],
                              [path |-> path, attr |-> entry.arg0,
                               val |-> entry.arg1, flags |-> flags]))

removexattr(s, entry) ==
    IF ~InEnv(s, entry.uuid) THEN Raise(s)
    ELSE LET path == _get_file(s, entry.uuid).path
             s1 == Take(s, path, entry)
         IN  Emit(s1, Syscall("RemoveXAttr", s1.take.new_lookup[1],
                              s1.take.new_lookup[2],
                              [path |-> path, attr |-> entry.arg0]))

listxattr(s, entry) ==
    IF ~InEnv(s, entry.uuid) THEN Raise(s)
    ELSE LET path == _get_file(s, entry.uuid).path
             s1 == Take(s, path, entry)
         IN  Emit(s1, Syscall("ListXAttr", s1.take.new_lookup[1],
                              s1.take.new_lookup[2], [path |-> path]))

read(s, entry) ==
    IF ~(IsInt(entry.arg0) /\ IsInt(entry.arg1)) THEN Raise(s)
    ELSE Emit(s, Syscall("Read", entry.timestamp, entry.duration,
                         [handle_id |-> entry.handle_id,
                          size |-> py_int(int(entry.arg1)),
                          offset |-> py_int(int(entry.arg0))]))

write(s, entry) ==
    IF ~(IsInt(entry.arg0) /\ IsInt(entry.arg1)) THEN Raise(s)
    ELSE Emit(s, Syscall("Write", entry.timestamp, entry.duration,
                         [handle_id |-> entry.handle_id,
                          size |-> py_int(int(entry.arg1)),
                          offset |-> py_int(int(entry.arg0))]))

\* An fsync that would not look at the open handles.
fsync_AnyHandle(s, entry) ==
    IF ~IsInt(entry.arg0) THEN Raise(s)
    ELSE Emit(s, Syscall("Fsync", entry.timestamp, entry.duration,
                         [handle_id |-> entry.handle_id,
                          data_only |-> int(entry.arg0) # 0]))

\* An fsync on a handle that is not open does nothing, and does not read arg0.
fsync(s, entry) ==
    IF entry.handle_id \notin s._open_fds THEN s
    ELSE IF ~IsInt(entry.arg0) THEN Raise(s)
    ELSE Emit(s, Syscall("Fsync", entry.timestamp, entry.duration,
                         [handle_id |-> entry.handle_id,
                          data_only |-> int(entry.arg0) # 0]))

\* set.remove raises KeyError for a handle that is not in the set.
release(s, entry) ==
    IF entry.handle_id \notin s._open_fds THEN Raise(s)
    ELSE Emit([s EXCEPT !._open_fds = @ \ {entry.handle_id}],
              Syscall("Release", entry.timestamp, entry.duration,
                      [handle_id |-> entry.handle_id]))

----------------------------------------------------------------------------
(* The handlers of class IOTraceParser in ioreplay.py.  They keep the      *)
(* arguments as text, and append tuples that begin with the name of the    *)
(* posix_ function to call.                                                *)

lookup_ioreplay(s, entry) ==
    LET file_type == entry.arg2
        uuid == entry.arg1
    IN  IF file_type = "f" /\ ~IsInt(entry.arg3) THEN Raise(s)
        ELSE IF ~InEnv(s, entry.uuid) THEN Raise(s)
        ELSE
        LET parent_dir == _get_file(s, entry.uuid)
            path == _join_path(parent_dir.path, entry.arg0)
            s1 == IF InEnv(s, uuid) THEN s
                  ELSE
                  LET s_b == IF file_type = "f" THEN s ELSE NewList(s)
                      file == File(path, file_type,
                                   IF file_type = "f" THEN int(entry.arg3)
                                   ELSE Len(s_b.sizes))
                  IN  IF entry.uuid = mount_dir_uuid
                      THEN [s_b EXCEPT !.root_dir = OD_set(@, uuid, file)]
                      ELSE [s_b EXCEPT !.initial_files = OD_set(@, uuid, file)]
            s2 == Take(s1, parent_dir.path, entry)
        IN  Enqueue(s2, path, s2.take.new_lookup)

getattr_ioreplay(s, entry) ==
    IF ~InEnv(s, entry.uuid) THEN Raise(s)
    ELSE LET path == _get_file(s, entry.uuid).path
             s1 == Take(s, path, entry)
         IN  Emit(s1, Syscall(entry.op, s1.take.new_lookup[1],
                              s1.take.new_lookup[2],
                              [path |-> path]))

setattr_ioreplay(s, entry) ==
    IF ~InEnv(s, entry.uuid) THEN Raise(s)
    ELSE LET path == _get_file(s, entry.uuid).path
             s1 == Take(s, path, entry)
         IN  Emit(s1, Syscall(entry.op, s1.take.new_lookup[1],
                              s1.take.new_lookup[2],
                              [path |-> path, mask |-> entry.arg0,
                               mode |-> entry.arg1, size |-> entry.arg2,
                               atime |-> entry.arg3, mtime |-> entry.arg4]))

readdir_ioreplay(s, entry) ==
    IF ~(IsInt(entry.arg1) /\ IsInt(entry.arg2)) THEN Raise(s)
    ELSE
    LET offset == int(entry.arg1)
        entries_num == int(entry.arg2)
    IN  IF offset > 0 /\ entries_num = 0 THEN s
        ELSE IF ~InEnv(s, entry.uuid) THEN Raise(s)
        ELSE
        LET directory == _get_file(s, entry.uuid)
        IN  IF ~Subscriptable(directory) THEN Raise(s)
            ELSE
            LET dummy_files_to_create == offset + entries_num - 2
                                         - s.sizes[directory.size][1]
                s1 == [s EXCEPT !.sizes[directory.size][2] =
                                    max(dummy_files_to_create, @)]
                s2 == Take(s1, directory.path, entry)
            IN  Emit(s2, Syscall(entry.op, s2.take.new_lookup[1],
                                 s2.take.new_lookup[2],
                                 [path |-> directory.path, offset |-> offset,
                                  entries_num |-> entries_num]))

\* The handle joins _open_fds before the uuid is resolved.
open_ioreplay(s, entry) ==
    LET s0 == [s EXCEPT !._open_fds = @ \cup {entry.handle_id}]
    IN  IF ~InEnv(s0, entry.uuid) THEN Raise(s0)
        ELSE LET path == _get_file(s0, entry.uuid).path
                 s1 == Take(s0, path, entry)
             IN  Emit(s1, Syscall(entry.op, s1.take.new_lookup[1],
                                  s1.take.new_lookup[2],
                                  [path |-> path, flags |-> entry.arg0,
                                   handle_id |-> entry.handle_id]))

flush_ioreplay(s, entry) == s

create_ioreplay(s, entry) ==
    IF ~InEnv(s, entry.uuid) THEN Raise(s)
    ELSE
    LET parent_dir == _get_file(s, entry.uuid)
    IN  IF ~Subscriptable(parent_dir) THEN Raise(s)
        ELSE
        LET s1 == AddToSize(s, parent_dir, 1, 1)
            s2 == [s1 EXCEPT !._open_fds = @ \cup {entry.handle_id}]
            path == _join_path(parent_dir.path, entry.arg0)
            s3 == EnvSet(s2, entry.arg1, File(path, "f", 0))
            s4 == Take(s3, parent_dir.path, entry)
        IN  Emit(s4, Syscall(entry.op, s4.take.new_lookup[1],
                             s4.take.new_lookup[2],
                             [path |-> path, flags |-> entry.arg3,
                              mode |-> entry.arg2,
                              handle_id |-> entry.handle_id]))

mkdir_ioreplay(s, entry) ==
    IF ~InEnv(s, entry.uuid) THEN Raise(s)
    ELSE
    LET parent_dir == _get_file(s, entry.uuid)
    IN  IF ~Subscriptable(parent_dir) THEN Raise(s)
        ELSE
        LET s1 == NewList(AddToSize(s, parent_dir, 1, 1))
            path == _join_path(parent_dir.path, entry.arg0)
            s2 == EnvSet(s1, entry.arg1, File(path, "d", Len(s1.sizes)))
            s3 == Take(s2, parent_dir.path, entry)
        IN  Emit(s3, Syscall(entry.op, s3.take.new_lookup[1],
                             s3.take.new_lookup[2],
                             [path |-> path, mode |-> entry.arg2]))

mknod_ioreplay(s, entry) ==
    IF ~InEnv(s, entry.uuid) THEN Raise(s)
    ELSE
    LET parent_dir == _get_file(s, entry.uuid)
    IN  IF ~Subscriptable(parent_dir) THEN Raise(s)
        ELSE
        LET s1 == AddToSize(s, parent_dir, 1, 1)
            path == _join_path(parent_dir.path, entry.arg0)
            s2 == EnvSet(s1, entry.arg1, File(path, "f", 0))
            s3 == Take(s2, parent_dir.path, entry)
        IN  Emit(s3, Syscall(entry.op, s3.take.new_lookup[1],
                             s3.take.new_lookup[2],
                             [path |-> path, mode |-> entry.arg2]))

unlink_ioreplay(s, entry) ==
    IF ~InEnv(s, entry.uuid) THEN Raise(s)
    ELSE
    LET parent_dir == _get_file(s, entry.uuid)
    IN  IF ~Subscriptable(parent_dir) THEN Raise(s)
        ELSE
        LET s1 == AddToSize(s, parent_dir, 1, -1)
        IN  IF ~InEnv(s1, entry.arg1) THEN Raise(s1)
            ELSE
            LET file == _get_file(s1, entry.arg1)
                s2 == Take(s1, file.path, entry)
            IN  Emit(s2, Syscall(IF file.type = "d" THEN "rmdir" ELSE "unlink",
                                 s2.take.new_lookup[1], s2.take.new_lookup[2],
                                 [path |-> file.path]))

rename_ioreplay(s, entry) ==
    IF ~InEnv(s, entry.uuid) THEN Raise(s)
    ELSE
    LET src_parent_dir == _get_file(s, entry.uuid)
    IN  IF ~Subscriptable(src_parent_dir) THEN Raise(s)
        ELSE
        LET s1 == AddToSize(s, src_parent_dir, 1, -1)
        IN  IF ~InEnv(s1, entry.arg1) THEN Raise(s1)
            ELSE IF ~InEnv(s1, entry.arg2) THEN Raise(s1)
            ELSE
            LET src_file == _get_file(s1, entry.arg1)
                src_path == _join_path(src_parent_dir.path, entry.arg0)
                dst_parent_dir == _get_file(s1, entry.arg2)
            IN  IF ~Subscriptable(dst_parent_dir) THEN Raise(s1)
                ELSE
                LET s2 == AddToSize(s1, dst_parent_dir, 1, 1)
                    dst_path == _join_path(dst_parent_dir.path, entry.arg3)
                    s3 == EnvSet(s2, entry.arg4,
                                 File(dst_path, src_file.type, src_file.size))
                    s4 == Take(s3, src_path, entry)
                IN  Emit(s4, Syscall(entry.op, s4.take.new_lookup[1],
                                     s4.take.new_lookup[2],
                                     [src_path |-> src_path,
                                      dst_path |-> dst_path]))

getxattr_ioreplay(s, entry) ==
    IF ~InEnv(s, entry.uuid) THEN Raise(s)
    ELSE LET path == _get_file(s, entry.uuid).path
             s1 == Take(s, path, entry)
         IN  Emit(s1, Syscall(entry.op, s1.take.new_lookup[1],
                              s1.take.new_lookup[2],
                              [path |-> path, attr |-> entry.arg0]))

setxattr_ioreplay(s, entry) ==
    IF ~IsInt(entry.arg2) THEN Raise(s)
    ELSE IF int(entry.arg2) = 0 /\ ~IsInt(entry.arg3) THEN Raise(s)
    ELSE IF ~InEnv(s, entry.uuid) THEN Raise(s)
    ELSE LET flags == IF int(entry.arg2) # 0 THEN 1
                      ELSE IF int(entry.arg3) # 0 THEN 2 ELSE 0
             path == _get_file(s, entry.uuid).path
             s1 == Take(s, path, entry)
         IN  Emit(s1, Syscall(entry.op, s1.take.new_lookup[1],
                              s1.take.new_lookup[2],
                              [path |-> path, attr |-> entry.arg0,
                               val |-> entry.arg1, flags |-> flags]))

removexattr_ioreplay(s, entry) ==
    IF ~InEnv(s, entry.uuid) THEN Raise(s)
    ELSE LET path == _get_file(s, entry.uuid).path
             s1 == Take(s, path, entry)
         IN  Emit(s1, Syscall(entry.op, s1.take.new_lookup[1],
                              s1.take.new_lookup[2],
                              [path |-> path, attr |-> entry.arg0]))

listxattr_ioreplay(s, entry) ==
    IF ~InEnv(s, entry.uuid) THEN Raise(s)
    ELSE LET path == _get_file(s, entry.uuid).path
             s1 == Take(s, path, entry)
         IN  Emit(s1, Syscall(entry.op, s1.take.new_lookup[1],
                              s1.take.new_lookup[2],
                              [path |-> path]))

\* A read that would take the size for the offset.
read_ioreplay_Swapped(s, entry) ==
    Emit(s, Syscall(entry.op, entry.timestamp, entry.duration,
                    [handle_id |-> entry.handle_id,
                     size |-> py_str(entry.arg0),
                     offset |-> py_str(entry.arg1)]))

\* entry.arg1 and entry.arg0 are appended as from_str left them: text.
read_ioreplay(s, entry) ==
    Emit(s, Syscall(entry.op, entry.timestamp, entry.duration,
                    [handle_id |-> entry.handle_id,
                     size |-> py_str(entry.arg1),
                     offset |-> py_str(entry.arg0)]))

write_ioreplay(s, entry) ==
    Emit(s, Syscall(entry.op, entry.timestamp, entry.duration,
                    [handle_id |-> entry.handle_id,
                     size |-> py_str(entry.arg1),
                     offset |-> py_str(entry.arg0)]))

fsync_ioreplay(s, entry) ==
    IF entry.handle_id \notin s._open_fds THEN s
    ELSE IF ~IsInt(entry.arg0) THEN Raise(s)
    ELSE Emit(s, Syscall(IF int(entry.arg0) # 0 THEN "fdatasync" ELSE "fsync",
                         entry.timestamp, entry.duration,
                         [handle_id |-> entry.handle_id]))

release_ioreplay(s, entry) ==
    IF entry.handle_id \notin s._open_fds THEN Raise(s)
    ELSE Emit([s EXCEPT !._open_fds = @ \ {entry.handle_id}],
              Syscall(entry.op, entry.timestamp, entry.duration,
                      [handle_id |-> entry.handle_id]))

----------------------------------------------------------------------------
(* parse(): the mount line, the data lines, the final sort.                *)

\* The methods that handle an opcode.
Handlers == {"lookup", "getattr", "setattr", "readdir", "open", "flush", "create",
             "mkdir", "mknod", "unlink", "rename", "getxattr", "setxattr", "removexattr",
             "listxattr", "read", "write", "fsync", "release"}

\* Attributes that every Python object has and that can be called with one
\* argument without raising: object.__eq__(self, entry) and its like return
\* NotImplemented.
ObjectMethods == {"__eq__", "__ne__"}

\* operation = getattr(self, entry.op); operation(entry).  A name that is no
\* attribute raises AttributeError; an attribute that cannot be called with
\* the entry (clean, syscalls, ...) raises TypeError.
Dispatch(s, entry) ==
    IF entry.op \in ObjectMethods THEN s
    ELSE IF entry.op \notin Handlers THEN Raise(s)
    ELSE IF impl = "parser"
    THEN
             CASE entry.op = "lookup" -> lookup(s, entry)
               [] entry.op = "getattr" -> getattr(s, entry)
               [] entry.op = "setattr" -> setattr(s, entry)
               [] entry.op = "readdir" -> readdir(s, entry)
               [] entry.op = "open" -> open(s, entry)
               [] entry.op = "flush" -> flush(s, entry)
               [] entry.op = "create" -> create(s, entry)
               [] entry.op = "mkdir" -> mkdir(s, entry)
               [] entry.op = "mknod" -> mknod(s, entry)
               [] entry.op = "unlink" -> unlink(s, entry)
               [] entry.op = "rename" -> rename(s, entry)
               [] entry.op = "getxattr" -> getxattr(s, entry)
               [] entry.op = "setxattr" -> setxattr(s, entry)
               [] entry.op = "removexattr" -> removexattr(s, entry)
               [] entry.op = "listxattr" -> listxattr(s, entry)
               [] entry.op = "read" -> read(s, entry)
               [] entry.op = "write" -> write(s, entry)
               [] entry.op = "fsync" -> fsync(s, entry)
               [] entry.op = "release" -> release(s, entry)
    ELSE
             CASE entry.op = "lookup" -> lookup_ioreplay(s, entry)
               [] entry.op = "getattr" -> getattr_ioreplay(s, entry)
               [] entry.op = "setattr" -> setattr_ioreplay(s, entry)
               [] entry.op = "readdir" -> readdir_ioreplay(s, entry)
               [] entry.op = "open" -> open_ioreplay(s, entry)
               [] entry.op = "flush" -> flush_ioreplay(s, entry)
               [] entry.op = "create" -> create_ioreplay(s, entry)
               [] entry.op = "mkdir" -> mkdir_ioreplay(s, entry)
               [] entry.op = "mknod" -> mknod_ioreplay(s, entry)
               [] entry.op = "unlink" -> unlink_ioreplay(s, entry)
               [] entry.op = "rename" -> rename_ioreplay(s, entry)
               [] entry.op = "getxattr" -> getxattr_ioreplay(s, entry)
               [] entry.op = "setxattr" -> setxattr_ioreplay(s, entry)
               [] entry.op = "removexattr" -> removexattr_ioreplay(s, entry)
               [] entry.op = "listxattr" -> listxattr_ioreplay(s, entry)
               [] entry.op = "read" -> read_ioreplay(s, entry)
               [] entry.op = "write" -> write_ioreplay(s, entry)
               [] entry.op = "fsync" -> fsync_ioreplay(s, entry)
               [] entry.op = "release" -> release_ioreplay(s, entry)

\* The key of lines.sort in parser.py, and of sort_trace_file.
SortKey(fields) == int(fields[1])

\* A parse that would leave self.syscalls in the order of emission.
SortByTimestamp_Skipped(seq) == seq

\* list.sort(key = timestamp): stable, so equal timestamps keep their order.
SortByTimestamp(seq) ==
    LET rank(i) == 1 + Cardinality({j \in 1..Len(seq) :
                         \/ seq[j].timestamp < seq[i].timestamp
                         \/ seq[j].timestamp = seq[i].timestamp /\ j < i})
    IN  [r \in 1..Len(seq) |-> seq[CHOOSE i \in 1..Len(seq) : rank(i) = r]]

\* The tree at mount_path holds the type of every path that exists below
\* the mount and, for a directory, the number of placeholder files in it.
Tree(dirs) == [files |-> [p \in {<<>>} \cup dirs |-> "d"],
               dummies |-> [p \in {} |-> 0], failed |-> FALSE]

\* The mounts the program is run on: an empty one, and one that holds the
\* directory r.
Mounts == {Tree({}), Tree({<<"r">>})}

\* The history variable: no data line was processed yet.
NoLast == [fields |-> <<>>, parsed |-> FALSE, accepted |-> FALSE,
           take |-> NoTake, emitted |-> 0, rejected |-> 0]

\* The caller of parse: n = 0 parses a file once; n = 1 is in the first of
\* two parses of one file and n = 2 in the second; file holds the lines the
\* first parse read; first holds what the first parse left.
NoRun == [n |-> 0, file |-> <<>>, first |-> <<>>]

\* The line that parse has read from the file.
Read(fields) == IF run.n = 1 THEN [run EXCEPT !.file = Append(@, fields)]
                ELSE run

\* IOTraceParser.__init__: the fields of a parser after construction.
__init__ ==
    /\ syscalls = <<>>
    /\ io_duration = 0
    /\ start_timestamp = 0
    /\ end_timestamp = 0
    /\ mount_dir_uuid = "None"
    /\ root_dir = <<>>
    /\ initial_files = <<>>
    /\ _current_files = <<>>
    /\ sizes = <<>>
    /\ _open_fds = {}
    /\ _pending_lookups = <<>>

\* The state before the program touches a trace file that is one of files,
\* with a new parser and the given caller.
Start(caller, files) ==
    /\ impl \in {"parser", "ioreplay"}
    /\ pc = "mount"
    /\ __init__
    /\ nlines = 0
    /\ last_key = 0
    /\ last = NoLast
    /\ mount_path \in Mounts
    /\ run = caller
    /\ sc_index = 1
    /\ delays = 0
    /\ replayed = 0
    /\ issued = <<>>
    /\ ctx = [fds |-> {}, scandirs |-> <<>>]
    /\ trace_file \in files

\* A trace file whose lines the parser reads, and which is not sorted by the
\* program.
NoFile == [lines |-> <<>>, sorts |-> 0]

\* The state before parse is called on a new parser, with the given caller.
Begin(caller) == Start(caller, {NoFile})

Init == Begin(NoRun)

\* A ParseMount that takes an entry of any opcode for the mount entry.
ParseMount_AnyOpcode(fields) ==
    /\ pc = "mount"
    /\ LET mount_entry == IF impl = "parser" THEN from_str(fields)
                          ELSE from_str_ioreplay(fields)
       IN  IF mount_entry.raised
           THEN /\ pc' = "exit"
                /\ UNCHANGED <<mount_dir_uuid, root_dir, sizes>>
           ELSE /\ pc' = "lines"
                /\ mount_dir_uuid' = mount_entry.uuid
                /\ sizes' = Append(sizes, <<0, 0>>)
                /\ root_dir' = OD_set(root_dir, mount_entry.uuid,
                                      File(<<>>, "d", Len(sizes) + 1))
    /\ run' = Read(fields)
    /\ UNCHANGED <<impl, syscalls, io_duration, start_timestamp, end_timestamp,
                   initial_files, _current_files, _open_fds, _pending_lookups,
                   nlines, last_key, last, mount_path, replay_vars,
                   trace_file>>

\* The second line of the file: anything but a well-formed mount entry ends
\* the program with exit(1).
ParseMount(fields) ==
    /\ pc = "mount"
    /\ LET mount_entry == IF impl = "parser" THEN from_str(fields)
                          ELSE from_str_ioreplay(fields)
       IN  IF mount_entry.raised \/ mount_entry.op # "mount"
           THEN /\ pc' = "exit"
                /\ UNCHANGED <<mount_dir_uuid, root_dir, sizes>>
           ELSE /\ pc' = "lines"
                /\ mount_dir_uuid' = mount_entry.uuid
                /\ sizes' = Append(sizes, <<0, 0>>)
                /\ root_dir' = OD_set(root_dir, mount_entry.uuid,
                                      File(<<>>, "d", Len(sizes) + 1))
    /\ run' = Read(fields)
    /\ UNCHANGED <<impl, syscalls, io_duration, start_timestamp, end_timestamp,
                   initial_files, _current_files, _open_fds, _pending_lookups,
                   nlines, last_key, last, mount_path, replay_vars,
                   trace_file>>

\* lines.sort(key=lambda x: int(x.split(',', maxsplit=1)[0])) of parser.py is
\* outside every try: a data line whose first field is no numeral ends parse
\* with ValueError before any data line is processed.
SortCrash(fields) ==
    /\ pc = "lines"
    /\ impl = "parser"
    /\ nlines = 0
    /\ ~IsInt(fields[1])
    /\ pc' = "ValueError"
    /\ UNCHANGED <<impl, syscalls, io_duration, start_timestamp, end_timestamp,
                   mount_dir_uuid, root_dir, initial_files, _current_files,
                   sizes, _open_fds, _pending_lookups, nlines, last_key, last,
                   mount_path, run, replay_vars,
                   trace_file>>

\* One turn of the loop over the data lines, at most max_lines of them.  The
\* lines come in the order of their keys: parser.py sorts them, ioreplay.py
\* reads a file that main() has sorted or takes as sorted.
ParseLine(fields, max_lines) ==
    /\ pc = "lines"
    /\ nlines < max_lines
    /\ impl = "parser" => IsInt(fields[1])
    /\ IsInt(fields[1]) => SortKey(fields) >= last_key
    /\ \E entry \in {IF impl = "parser" THEN from_str(fields)
                     ELSE from_str_ioreplay(fields)} :
       \E s \in {IF entry.raised THEN Raise(ParserState)
                 ELSE Dispatch(ParserState, entry)} :
           /\ syscalls' = s.syscalls
           /\ root_dir' = s.root_dir
           /\ initial_files' = s.initial_files
           /\ _current_files' = s._current_files
           /\ sizes' = s.sizes
           /\ _open_fds' = s._open_fds
           /\ _pending_lookups' = s._pending_lookups
           /\ io_duration' = IF s.raised THEN io_duration
                             ELSE io_duration + entry.duration
           /\ end_timestamp' = IF s.raised THEN end_timestamp
                               ELSE max(end_timestamp,
                                        entry.timestamp + entry.duration)
           /\ last' = [fields |-> fields, parsed |-> ~entry.raised,
                       accepted |-> ~s.raised, take |-> s.take,
                       emitted |-> Len(s.syscalls) - Len(syscalls),
                       rejected |-> last.rejected + (IF s.raised THEN 1 ELSE 0)]
    /\ nlines' = nlines + 1
    /\ last_key' = IF IsInt(fields[1]) THEN SortKey(fields) ELSE last_key
    /\ run' = Read(fields)
    /\ UNCHANGED <<impl, pc, start_timestamp, mount_dir_uuid, mount_path,
                   replay_vars,
                   trace_file>>

\* A Finish that takes start_timestamp from the last syscall of the list.
Finish_LastTimestamp ==
    /\ pc = "lines"
    /\ syscalls' = SortByTimestamp(syscalls)
    /\ IF syscalls = <<>>
       THEN pc' = "IndexError" /\ UNCHANGED start_timestamp
       ELSE pc' = "done"
            /\ start_timestamp' = syscalls'[Len(syscalls')].timestamp
    /\ UNCHANGED <<impl, io_duration, end_timestamp, mount_dir_uuid, root_dir,
                   initial_files, _current_files, sizes, _open_fds,
                   _pending_lookups, nlines, last_key, last, mount_path, run,
                   replay_vars,
                   trace_file>>

\* After the last line: the sort of self.syscalls and start_timestamp.
\* self.syscalls[0] raises IndexError when nothing was emitted.
Finish ==
    /\ pc = "lines"
    /\ syscalls' = SortByTimestamp(syscalls)
    /\ IF syscalls = <<>>
       THEN pc' = "IndexError" /\ UNCHANGED start_timestamp
       ELSE pc' = "done" /\ start_timestamp' = syscalls'[1].timestamp
    /\ UNCHANGED <<impl, io_duration, end_timestamp, mount_dir_uuid, root_dir,
                   initial_files, _current_files, sizes, _open_fds,
                   _pending_lookups, nlines, last_key, last, mount_path, run,
                   replay_vars,
                   trace_file>>

\* os.path.dirname.
dirname(path) == SubSeq(path, 1, Len(path) - 1)

\* os.path.exists and os.path.isdir on the tree fs.
exists(fs, path) == path \in DOMAIN fs.files

isdir(fs, path) == exists(fs, path) /\ fs.files[path] = "d"

\* len(os.listdir(dir_path)), for a directory of the tree fs.
listdir(fs, dir_path) ==
    Cardinality({p \in DOMAIN fs.files :
                    Len(p) > 0 /\ dirname(p) = dir_path})
    + (IF dir_path \in DOMAIN fs.dummies THEN fs.dummies[dir_path] ELSE 0)

\* The first pass of create_env from the i-th initial file on: a missing
\* file or directory is made; open and mkdir raise when the parent is no
\* directory, and the program exits.
RECURSIVE first_pass(_, _, _)
first_pass(fs, files, i) ==
    IF fs.failed \/ i > Len(files) THEN fs
    ELSE LET file == files[i].v
         IN  IF exists(fs, file.path) \/ file.type \notin {"f", "d"}
             THEN first_pass(fs, files, i + 1)
             ELSE IF ~isdir(fs, dirname(file.path))
             THEN [fs EXCEPT !.failed = TRUE]
             ELSE first_pass([fs EXCEPT !.files = (file.path :> file.type) @@ @],
                             files, i + 1)

\* The second pass of create_env from the i-th initial file on: every
\* directory gets max(0, unknown_children - len(dir_content)) placeholder
\* files with fresh names; listdir raises on what is no directory.
RECURSIVE second_pass(_, _, _, _)
second_pass(fs, files, heap, i) ==
    IF fs.failed \/ i > Len(files) THEN fs
    ELSE LET file == files[i].v
         IN  IF file.type # "d" THEN second_pass(fs, files, heap, i + 1)
             ELSE IF ~isdir(fs, file.path) THEN [fs EXCEPT !.failed = TRUE]
             ELSE
             LET dir_content == listdir(fs, file.path)
                 files_to_create == max(0, heap[file.size][2] - dir_content)
                 had == IF file.path \in DOMAIN fs.dummies
                        THEN fs.dummies[file.path] ELSE 0
             IN  second_pass(
                     [fs EXCEPT !.dummies =
                          (file.path :> had + files_to_create) @@ @],
                     files, heap, i + 1)

\* create_env(parser.initial_files, args.mount_path), called by main() after
\* parse.
create_env ==
    /\ pc = "done"
    /\ mount_path' = second_pass(first_pass(mount_path, initial_files, 1),
                                 initial_files, sizes, 1)
    /\ pc' = IF mount_path'.failed THEN "exit" ELSE "prepared"
    /\ UNCHANGED <<impl, syscalls, io_duration, start_timestamp, end_timestamp,
                   mount_dir_uuid, root_dir, initial_files, _current_files,
                   sizes, _open_fds, _pending_lookups, nlines, last_key, last,
                   run, replay_vars,
                   trace_file>>

\* The lines of a trace that carry the opcode op.
OpLines(lines, op) == {fields \in lines : fields[2] = op}

\* One action for each opcode: a data line with that opcode is processed.
LookupLine(lines, max_lines) ==
    \E fields \in OpLines(lines, "lookup") :
        fields[2] = "lookup" /\ ParseLine(fields, max_lines)

GetAttrLine(lines, max_lines) ==
    \E fields \in OpLines(lines, "getattr") :
        fields[2] = "getattr" /\ ParseLine(fields, max_lines)

SetAttrLine(lines, max_lines) ==
    \E fields \in OpLines(lines, "setattr") :
        fields[2] = "setattr" /\ ParseLine(fields, max_lines)

ReadDirLine(lines, max_lines) ==
    \E fields \in OpLines(lines, "readdir") :
        fields[2] = "readdir" /\ ParseLine(fields, max_lines)

OpenLine(lines, max_lines) ==
    \E fields \in OpLines(lines, "open") :
        fields[2] = "open" /\ ParseLine(fields, max_lines)

FlushLine(lines, max_lines) ==
    \E fields \in OpLines(lines, "flush") :
        fields[2] = "flush" /\ ParseLine(fields, max_lines)

CreateLine(lines, max_lines) ==
    \E fields \in OpLines(lines, "create") :
        fields[2] = "create" /\ ParseLine(fields, max_lines)

MkDirLine(lines, max_lines) ==
    \E fields \in OpLines(lines, "mkdir") :
        fields[2] = "mkdir" /\ ParseLine(fields, max_lines)

MkNodLine(lines, max_lines) ==
    \E fields \in OpLines(lines, "mknod") :
        fields[2] = "mknod" /\ ParseLine(fields, max_lines)

UnlinkLine(lines, max_lines) ==
    \E fields \in OpLines(lines, "unlink") :
        fields[2] = "unlink" /\ ParseLine(fields, max_lines)

RenameLine(lines, max_lines) ==
    \E fields \in OpLines(lines, "rename") :
        fields[2] = "rename" /\ ParseLine(fields, max_lines)

GetXAttrLine(lines, max_lines) ==
    \E fields \in OpLines(lines, "getxattr") :
        fields[2] = "getxattr" /\ ParseLine(fields, max_lines)

SetXAttrLine(lines, max_lines) ==
    \E fields \in OpLines(lines, "setxattr") :
        fields[2] = "setxattr" /\ ParseLine(fields, max_lines)

RemoveXAttrLine(lines, max_lines) ==
    \E fields \in OpLines(lines, "removexattr") :
        fields[2] = "removexattr" /\ ParseLine(fields, max_lines)

ListXAttrLine(lines, max_lines) ==
    \E fields \in OpLines(lines, "listxattr") :
        fields[2] = "listxattr" /\ ParseLine(fields, max_lines)

ReadLine(lines, max_lines) ==
    \E fields \in OpLines(lines, "read") :
        fields[2] = "read" /\ ParseLine(fields, max_lines)

WriteLine(lines, max_lines) ==
    \E fields \in OpLines(lines, "write") :
        fields[2] = "write" /\ ParseLine(fields, max_lines)

FsyncLine(lines, max_lines) ==
    \E fields \in OpLines(lines, "fsync") :
        fields[2] = "fsync" /\ ParseLine(fields, max_lines)

ReleaseLine(lines, max_lines) ==
    \E fields \in OpLines(lines, "release") :
        fields[2] = "release" /\ ParseLine(fields, max_lines)

\* A data line whose opcode is no handler.
OtherLine(lines, max_lines) ==
    \E fields \in {f \in lines : f[2] \notin Handlers} :
        fields[2] \notin Handlers /\ ParseLine(fields, max_lines)

\* A data line that the sort of parser.py cannot take.
UnsortableLine(lines) == \E fields \in lines : ~IsInt(fields[1]) /\ SortCrash(fields)

\* The mount line of a trace.
MountLine(lines) == \E fields \in lines : pc = "mount" /\ ParseMount(fields)

----------------------------------------------------------------------------
(* The lines of the traces.  The mount is "M"; "U" is the directory a of   *)
(* the mount, "V" an entry b of a, "W" an entry c of the mount.            *)

\* The arguments of each opcode, in the order of its docstring.
lookup_line(timestamp, duration, uuid, name, child_uuid, type, size) ==
    Line13(timestamp, "lookup", duration, uuid, "0",
           <<name, child_uuid, type, size>>)

plain_line(op, timestamp, duration, uuid) ==
    Line13(timestamp, op, duration, uuid, "0", <<>>)

setattr_line(timestamp, duration, uuid) ==
    Line13(timestamp, "setattr", duration, uuid, "0",
           <<"1", "7", "0", "0", "0">>)

readdir_line(timestamp, duration, uuid, offset, entries_num) ==
    Line13(timestamp, "readdir", duration, uuid, "0",
           <<"10", offset, entries_num>>)

open_line(timestamp, duration, uuid, handle_id) ==
    Line13(timestamp, "open", duration, uuid, handle_id, <<"0">>)

create_line(timestamp, duration, uuid, name, new_uuid, handle_id) ==
    Line13(timestamp, "create", duration, uuid, handle_id,
           <<name, new_uuid, "7", "0">>)

mk_line(op, timestamp, duration, uuid, name, new_uuid) ==
    Line13(timestamp, op, duration, uuid, "0", <<name, new_uuid, "7">>)

unlink_line(timestamp, duration, uuid, name, target_uuid) ==
    Line13(timestamp, "unlink", duration, uuid, "0", <<name, target_uuid>>)

rename_line(timestamp, duration, uuid, name, old_uuid, new_parent, new_name, new_uuid) ==
    Line13(timestamp, "rename", duration, uuid, "0",
           <<name, old_uuid, new_parent, new_name, new_uuid>>)

xattr_line(op, timestamp, duration, uuid) ==
    Line13(timestamp, op, duration, uuid, "0", <<"user.k", "v", "0", "0">>)

rw_line(op, timestamp, duration, handle_id) ==
    Line13(timestamp, op, duration, "U", handle_id, <<"0", "5">>)

handle_line(op, timestamp, duration, handle_id, arg0) ==
    Line13(timestamp, op, duration, "U", handle_id, <<arg0>>)

\* The mount line of every trace that parses.
MountLines == {Line13("0", "mount", "0", "M", "0", <<>>)}

\* Traces of lookups of the directory a and of the events that drain the
\* pending lookups of its path.
CoalesceLines ==
    {lookup_line(td[1], td[2], "M", "a", "U", "d", "0") :
        td \in {<<"0", "0">>, <<"0", "1">>, <<"1", "0">>}}
    \cup UNION {
       {plain_line("getattr", t, "1", "U"),
        plain_line("getattr", t, "1", "M"),
        setattr_line(t, "1", "U"),
        readdir_line(t, "1", "U", "0", "2"),
        open_line(t, "1", "U", "7"),
        create_line(t, "1", "U", "b", "V", "7"),
        mk_line("mkdir", t, "1", "U", "b", "V"),
        mk_line("mknod", t, "1", "U", "b", "V"),
        unlink_line(t, "1", "M", "a", "U"),
        rename_line(t, "1", "M", "a", "U", "M", "c", "W"),
        xattr_line("getxattr", t, "1", "U"),
        xattr_line("setxattr", t, "1", "U"),
        xattr_line("removexattr", t, "1", "U"),
        xattr_line("listxattr", t, "1", "U")} : t \in {"0", "1"}}

\* Traces of one file a of the mount and one handle: a lookup, opens,
\* closes and syncs.
HandleLines ==
    {lookup_line("0", "1", "M", "a", "U", "f", "0")}
    \cup {open_line(t, "0", "U", "7") : t \in {"0", "1"}}
    \cup {handle_line("release", t, "0", "7", "") : t \in {"0", "1", "2"}}
    \cup {handle_line("fsync", t, "1", "7", a) :
             t \in {"1", "2"}, a \in {"0", "1"}}

\* Traces about the directory r/d of the mount ("R" is r, "D" is r/d): the
\* lookups that find the two and the file c of r/d, readdirs of r/d and of
\* the mount, and a mkdir in r/d.
EnvLines ==
    {lookup_line("0", "0", "M", "r", "R", "d", "0"),
     lookup_line("0", "0", "R", "d", "D", "d", "0"),
     lookup_line("0", "0", "D", "c", "C", "f", "0"),
     readdir_line("0", "0", "D", "0", "4"),
     readdir_line("0", "0", "D", "2", "3"),
     readdir_line("0", "0", "D", "2", "0"),
     readdir_line("0", "0", "M", "0", "3"),
     mk_line("mkdir", "0", "0", "D", "n", "N")}

\* Traces with lines that are rejected: a getattr of "U" before its lookup,
\* of "X" that no lookup finds, opcodes that are no handler, a duration and
\* a timestamp that are no numerals, a line of three fields.
RejectLines ==
    {lookup_line("0", "1", "M", "a", "U", "f", "0"),
     plain_line("getattr", "0", "1", "U"),
     plain_line("getattr", "1", "1", "U"),
     plain_line("getattr", "1", "1", "X"),
     plain_line("foo", "1", "1", "M"),
     plain_line("__eq__", "1", "1", "M"),
     plain_line("getattr", "1", "x", "M"),
     plain_line("getattr", "x", "1", "M"),
     <<"1", "getattr", "1">>}

\* Traces about the directories a ("A") and b ("B") of the mount and the
\* file a/f ("F"): their lookups, the create of a/f, its rename to b/g and
\* to a/h, its unlink and the unlink of a.
TreeLines ==
    {lookup_line("0", "0", "M", "a", "A", "d", "0"),
     lookup_line("0", "0", "M", "b", "B", "d", "0"),
     lookup_line("0", "0", "A", "f", "F", "f", "0"),
     create_line("0", "0", "A", "f", "F", "7"),
     rename_line("0", "0", "A", "f", "F", "B", "g", "G"),
     rename_line("0", "0", "A", "f", "F", "A", "h", "F"),
     unlink_line("0", "0", "A", "f", "F"),
     unlink_line("0", "0", "M", "a", "A")}

Next ==
    \/ MountLine(MountLines)
    \/ LookupLine(CoalesceLines, MaxLines)
    \/ GetAttrLine(CoalesceLines, MaxLines)
    \/ SetAttrLine(CoalesceLines, MaxLines)
    \/ ReadDirLine(CoalesceLines, MaxLines)
    \/ OpenLine(CoalesceLines, MaxLines)
    \/ CreateLine(CoalesceLines, MaxLines)
    \/ MkDirLine(CoalesceLines, MaxLines)
    \/ MkNodLine(CoalesceLines, MaxLines)
    \/ UnlinkLine(CoalesceLines, MaxLines)
    \/ RenameLine(CoalesceLines, MaxLines)
    \/ GetXAttrLine(CoalesceLines, MaxLines)
    \/ SetXAttrLine(CoalesceLines, MaxLines)
    \/ RemoveXAttrLine(CoalesceLines, MaxLines)
    \/ ListXAttrLine(CoalesceLines, MaxLines)
    \/ Finish

Spec == Init /\ [][Next]_vars

NextHandles ==
    \/ MountLine(MountLines)
    \/ LookupLine(HandleLines, MaxHandleLines)
    \/ OpenLine(HandleLines, MaxHandleLines)
    \/ ReleaseLine(HandleLines, MaxHandleLines)
    \/ FsyncLine(HandleLines, MaxHandleLines)
    \/ Finish

SpecHandles == Init /\ [][NextHandles]_vars

NextEnv ==
    \/ MountLine(MountLines)
    \/ LookupLine(EnvLines, MaxEnvLines)
    \/ ReadDirLine(EnvLines, MaxEnvLines)
    \/ MkDirLine(EnvLines, MaxEnvLines)
    \/ Finish
    \/ create_env

SpecEnv == Init /\ [][NextEnv]_vars

NextTree ==
    \/ MountLine(MountLines)
    \/ LookupLine(TreeLines, MaxTreeLines)
    \/ CreateLine(TreeLines, MaxTreeLines)
    \/ RenameLine(TreeLines, MaxTreeLines)
    \/ UnlinkLine(TreeLines, MaxTreeLines)
    \/ Finish

SpecTree == Init /\ [][NextTree]_vars

NextReject ==
    \/ MountLine(MountLines)
    \/ UnsortableLine(RejectLines)
    \/ LookupLine(RejectLines, MaxRejectLines)
    \/ GetAttrLine(RejectLines, MaxRejectLines)
    \/ OtherLine(RejectLines, MaxRejectLines)
    \/ Finish

SpecReject == Init /\ [][NextReject]_vars

----------------------------------------------------------------------------
(* What the data line processed last was and did.                          *)

\* The entry of the line processed last (for a line that from_str accepts).
LastEntry == from_str_ioreplay(last.fields)

\* The opcode of the line processed last ("" before the first line).
LastOp == IF last.fields = <<>> THEN "" ELSE last.fields[2]

\* The handlers that call _take_pending_lookup and append a syscall.
Drainers == {"getattr", "setattr", "readdir", "open", "create", "mkdir",
             "mknod", "unlink", "rename", "getxattr", "setxattr",
             "removexattr", "listxattr"}

\* The line processed last was accepted, drained the queue of a path and
\* appended a syscall; parse has not sorted self.syscalls yet.
LastDrained ==
    /\ pc = "lines"
    /\ last.accepted
    /\ LastOp \in Drainers
    /\ last.take.called
    /\ last.emitted = 1

\* The syscall that the line processed last appended.
LastSyscall == syscalls[Len(syscalls)]

\* The queue of the drained path before and after the line processed last.
QueueBefore == last.take.before

QueueAfter == PendingFor(_pending_lookups, last.take.path)

\* The sequence without its i-th entry.
RemoveAt(queue, i) ==
    [k \in 1..(Len(queue) - 1) |-> IF k < i THEN queue[k] ELSE queue[k + 1]]

\* The gap between the end of the pending lookup pl and the event.
Gap(pl, timestamp) == timestamp - (pl[1] + pl[2])

\* The syscall sc carries the timing of the event fused with the lookup pl.
FusedWith(sc, pl) ==
    /\ sc.timestamp = pl[1]
    /\ sc.duration = LastEntry.timestamp + LastEntry.duration - pl[1]

\* The syscall sc carries the timing of the event itself.
Alone(sc) ==
    /\ sc.timestamp = LastEntry.timestamp
    /\ sc.duration = LastEntry.duration

----------------------------------------------------------------------------
(* Lookup coalescence.                                                     *)

\* C1: with one pending lookup (t_l, d_l) queued on the path of an event at
\* t, the event is coalesced with it if and only if
\* 0 <= t - (t_l + d_l) <= 250_000 ns.
C1_CoalescedWithin250us ==
    (LastDrained /\ Len(QueueBefore) = 1) =>
        LET gap == Gap(QueueBefore[1], LastEntry.timestamp)
        IN  (QueueAfter = <<>>) <=> (0 <= gap /\ gap <= 250000)

\* C2: an event coalesced with a pending lookup (t_l, d_l) removes that entry
\* from the queue of the path and is emitted with timestamp t_l and duration
\* t + d - t_l; an event that no pending lookup fits is emitted with its own
\* (t, d).
C2_FusedTiming ==
    LastDrained =>
        \/ /\ QueueAfter = QueueBefore
           /\ Alone(LastSyscall)
        \/ \E i \in 1..Len(QueueBefore) :
              /\ QueueAfter = RemoveAt(QueueBefore, i)
              /\ FusedWith(LastSyscall, QueueBefore[i])

\* An event was coalesced with a lookup that had begun earlier and the
\* syscall lasts longer than the event.
C2_Witness ==
    /\ LastDrained
    /\ Len(QueueAfter) < Len(QueueBefore)
    /\ LastSyscall.timestamp < LastEntry.timestamp
    /\ LastSyscall.duration > LastEntry.duration

\* C3 as claimed: of several pending lookups that fit, the one enqueued
\* first (the oldest, at the tail of the list) is removed and fused.
C3_OldestFitTaken ==
    (LastDrained /\ Fitting(QueueBefore, LastEntry.timestamp) # {}) =>
        LET i == Max(Fitting(QueueBefore, LastEntry.timestamp))
        IN  /\ QueueAfter = RemoveAt(QueueBefore, i)
            /\ FusedWith(LastSyscall, QueueBefore[i])

\* C3, amended: of several pending lookups that pass the window test, the one
\* enqueued last (the newest, at the head of the list) is removed and fused.
C3_NewestFitTaken ==
    (LastDrained /\ Fitting(QueueBefore, LastEntry.timestamp) # {}) =>
        LET i == Min(Fitting(QueueBefore, LastEntry.timestamp))
        IN  /\ QueueAfter = RemoveAt(QueueBefore, i)
            /\ FusedWith(LastSyscall, QueueBefore[i])

\* Two different pending lookups of the path both fit the event.
C3_Witness ==
    /\ LastDrained
    /\ \E i, j \in Fitting(QueueBefore, LastEntry.timestamp) :
          QueueBefore[i] # QueueBefore[j]

----------------------------------------------------------------------------
(* The emitted stream.                                                     *)

\* The timestamps of the sequence never decrease.
Sorted(seq) ==
    \A i \in 1..(Len(seq) - 1) : seq[i].timestamp <= seq[i + 1].timestamp

\* C6: after parse has finished, the emitted syscalls are in the order of
\* their timestamps.
C6_SortedAfterParse == pc = "done" => Sorted(syscalls)

\* parse has finished, and the syscall appended last, fused with a lookup,
\* is no longer the last of the list.
C6_Witness ==
    /\ pc = "done"
    /\ last.take.taken # 0
    /\ last.emitted = 1
    /\ syscalls[Len(syscalls)].timestamp > last.take.new_lookup[1]

----------------------------------------------------------------------------
(* Handles.                                                                *)

\* The syscall sc opens, closes the handle h.
Opens(sc, h) == IsOpen(sc) /\ sc.handle_id = h

Closes(sc, h) == IsClose(sc) /\ sc.handle_id = h

\* C4: in the sorted stream of a trace whose every line was accepted, every
\* close(h) comes after an open or create of h with no other close(h) between
\* the two.
C4_CloseFollowsOpen ==
    (pc = "done" /\ last.rejected = 0) =>
        \A i \in 1..Len(syscalls) :
            IsClose(syscalls[i]) =>
                \E j \in 1..(i - 1) :
                    /\ Opens(syscalls[j], syscalls[i].handle_id)
                    /\ \A k \in (j + 1)..(i - 1) :
                          ~Closes(syscalls[k], syscalls[i].handle_id)

\* The syscall sc is fdatasync, is fsync.
IsDataSync(sc) ==
    \/ sc.op = "fdatasync"
    \/ sc.op = "Fsync" /\ sc.data_only

IsFileSync(sc) ==
    \/ sc.op = "fsync"
    \/ sc.op = "Fsync" /\ ~sc.data_only

\* The step processes an fsync line; the entry of that line.
FsyncStep == nlines' = nlines + 1 /\ last'.fields[2] = "fsync"

StepEntry == from_str_ioreplay(last'.fields)

\* The step leaves the environment, the open handles and the pending
\* lookups as they were.
SameTables ==
    UNCHANGED <<root_dir, initial_files, _current_files, sizes, _open_fds,
                _pending_lookups, mount_dir_uuid>>

\* The step counts the line as any accepted line is counted.
Counted ==
    /\ last'.accepted
    /\ io_duration' = io_duration + StepEntry.duration
    /\ end_timestamp' = max(end_timestamp,
                            StepEntry.timestamp + StepEntry.duration)

\* The step appends one fsync or fdatasync of the line's handle with the
\* line's own timing.
EmitsSync ==
    /\ Len(syscalls') = Len(syscalls) + 1
    /\ SubSeq(syscalls', 1, Len(syscalls)) = syscalls
    /\ LET sc == syscalls'[Len(syscalls')]
       IN  /\ sc.timestamp = StepEntry.timestamp
           /\ sc.duration = StepEntry.duration
           /\ sc.handle_id = StepEntry.handle_id
           /\ IF int(StepEntry.arg0) # 0 THEN IsDataSync(sc) ELSE IsFileSync(sc)

\* C5 as claimed: an fsync on a handle that is not open emits nothing and
\* changes no state of the parser; an fsync on an open handle emits one
\* fsync or fdatasync at the line's own timing.
C5_DroppedFsyncChangesNothing ==
    [][FsyncStep =>
        IF StepEntry.handle_id \notin _open_fds
        THEN syscalls' = syscalls /\ SameTables
             /\ UNCHANGED <<io_duration, start_timestamp, end_timestamp>>
        ELSE EmitsSync /\ SameTables]_vars

\* C5, amended: an fsync on a handle that is not open emits nothing and
\* changes neither the environment, the open handles nor the pending
\* lookups, but is counted in io_duration and end_timestamp as an accepted
\* line; an fsync (with a numeral as arg0) on an open handle emits one
\* fdatasync (arg0 not 0) or fsync at the line's own timing.
C5_FsyncRuleF ==
    [][FsyncStep =>
        IF StepEntry.handle_id \notin _open_fds
        THEN syscalls' = syscalls /\ SameTables /\ Counted
        ELSE IsInt(StepEntry.arg0) =>
                 EmitsSync /\ SameTables /\ Counted]_vars

\* An fsync came after the release of its handle and was dropped, and an
\* fsync on an open handle was emitted.
C5_Witness ==
    /\ LastOp = "fsync"
    /\ last.accepted
    /\ last.emitted = 0
    /\ \E i \in 1..Len(syscalls) : IsClose(syscalls[i])
    /\ \E i \in 1..Len(syscalls) : IsSync(syscalls[i])

----------------------------------------------------------------------------
(* Directories.                                                            *)

\* C7: known_children of every directory is never negative.
C7_KnownChildrenNonNegative ==
    \A a \in 1..Len(sizes) : sizes[a][1] >= 0

\* The step processes a data line.
LineStep == nlines' = nlines + 1

\* The line of the step names a uuid that the environment does not hold,
\* an opcode that is no handler, or fields that from_str does not take.
Defective ==
    LET fields == last'.fields
        entry == from_str_ioreplay(fields)
    IN  \/ fields[2] \notin Handlers
        \/ entry.raised
        \/ ~InEnv(ParserState, entry.uuid)

\* C8: a data line with an unresolvable uuid, an unknown opcode or malformed
\* fields appends no syscall, adds nothing to io_duration, does not move
\* end_timestamp, and does not end the parsing.
C8_RejectedLeavesNoTrace ==
    [][/\ (LineStep /\ Defective) =>
              /\ syscalls' = syscalls
              /\ io_duration' = io_duration
              /\ end_timestamp' = end_timestamp
              /\ pc' = "lines"
       /\ pc' # "ValueError"]_vars

\* The syscall sc reads a directory, makes an entry.
IsReadDir(sc) == sc.op \in {"ReadDir", "readdir"}

Makes(sc) == sc.op \in {"Create", "create", "MkDir", "mkdir", "MkNod", "mknod"}

\* The number of entries that the syscalls before the i-th make in dir_path.
MadeBefore(dir_path, i) ==
    Cardinality({j \in 1..(i - 1) :
                    Makes(syscalls[j]) /\ dirname(syscalls[j].path) = dir_path})

\* C9: after create_env every directory of initial_files holds, for each
\* readdir of it that was emitted, at least offset + entries_num - 2 entries
\* less those the trace made in it before that readdir.
C9_EnoughEntriesForReaddir ==
    pc = "prepared" =>
        \A k \in 1..Len(initial_files) :
            LET D == initial_files[k].v
            IN  D.type = "d" =>
                    \A i \in 1..Len(syscalls) :
                        (IsReadDir(syscalls[i]) /\ syscalls[i].path = D.path) =>
                            listdir(mount_path, D.path) >=
                                syscalls[i].offset + syscalls[i].entries_num - 2
                                - MadeBefore(D.path, i)

\* The step processes a readdir line that is accepted and is not the probe
\* of the end of a directory (offset > 0 with no entry).
ReadDirStep ==
    /\ LineStep
    /\ last'.fields[2] = "readdir"
    /\ last'.accepted
    /\ ~(int(StepEntry.arg1) > 0 /\ int(StepEntry.arg2) = 0)

\* C10: an accepted readdir of a directory other than the mount sets its
\* unknown_children to max(unknown_children, offset + entries_num - 2 -
\* known_children) and keeps known_children; a readdir of the mount changes
\* neither count of the mount; either emits one readdir(path, offset,
\* entries_num).
C10_ReaddirCounts ==
    [][ReadDirStep =>
        LET directory == EnvGet(ParserState, StepEntry.uuid)
            offset == int(StepEntry.arg1)
            entries_num == int(StepEntry.arg2)
            known == sizes[directory.size][1]
            unknown == sizes[directory.size][2]
        IN  /\ sizes'[directory.size] =
                  IF StepEntry.uuid = mount_dir_uuid THEN <<known, unknown>>
                  ELSE <<known, max(unknown, offset + entries_num - 2 - known)>>
            /\ Len(syscalls') = Len(syscalls) + 1
            /\ LET sc == syscalls'[Len(syscalls')]
               IN  /\ IsReadDir(sc)
                   /\ sc.path = directory.path
                   /\ sc.offset = offset
                   /\ sc.entries_num = entries_num]_vars

----------------------------------------------------------------------------
(* The effect of each kind of record.                                      *)

\* The step processes a readdir line with offset > 0 and no entry.
ProbeStep ==
    /\ LineStep
    /\ last'.fields[2] = "readdir"
    /\ IsInt(StepEntry.arg1) /\ IsInt(StepEntry.arg2)
    /\ int(StepEntry.arg1) > 0 /\ int(StepEntry.arg2) = 0

\* C11: a readdir with offset > 0 and no entry emits no syscall and leaves
\* the environment with its child counts, the open handles and the pending
\* lookups as they were.
C11_ProbeReaddirChangesNothing ==
    [][ProbeStep => syscalls' = syscalls /\ SameTables]_vars

\* Such a readdir was processed while a lookup that fits it was pending on
\* the path of its directory, and the lookup is still pending.
C11_Witness ==
    /\ LastOp = "readdir"
    /\ last.accepted
    /\ int(LastEntry.arg1) > 0 /\ int(LastEntry.arg2) = 0
    /\ InEnv(ParserState, LastEntry.uuid)
    /\ Fitting(PendingFor(_pending_lookups,
                          EnvGet(ParserState, LastEntry.uuid).path),
               LastEntry.timestamp) # {}

\* The step processes a line of opcode op that is accepted.
AcceptedStep(op) == LineStep /\ last'.fields[2] = op /\ last'.accepted

\* The layer od' is od with one entry more, for uuid, of the path and type.
Inserted(od, od_after, uuid, path, type) ==
    /\ Len(od_after) = Len(od) + 1
    /\ SubSeq(od_after, 1, Len(od)) = od
    /\ od_after[Len(od_after)].k = uuid
    /\ od_after[Len(od_after)].v.path = path
    /\ od_after[Len(od_after)].v.type = type

\* Every list of child counts that exists before the step keeps its value,
\* but for the list at address a.
CountsKeptBut(a) ==
    \A b \in 1..Len(sizes) : b # a => sizes'[b] = sizes[b]

\* The queue of pending lookups of the path grows by n entries.
QueueGrows(path, n) ==
    Len(PendingFor(_pending_lookups', path)) =
        Len(PendingFor(_pending_lookups, path)) + n

\* C12: a lookup emits no syscall; a child uuid that no layer holds is
\* inserted into root_dir when the parent is the mount and into initial_files
\* otherwise, never into _current_files, and the parent's known_children
\* grows by 1 and its unknown_children falls by 1; a child uuid already held
\* changes no layer and no count; either way the queue of the child path
\* grows by one pending lookup.
C12_LookupEffect ==
    [][AcceptedStep("lookup") =>
        LET parent_dir == EnvGet(ParserState, StepEntry.uuid)
            uuid == StepEntry.arg1
            path == _join_path(parent_dir.path, StepEntry.arg0)
        IN  /\ syscalls' = syscalls
            /\ _current_files' = _current_files
            /\ IF InEnv(ParserState, uuid)
               THEN /\ UNCHANGED <<root_dir, initial_files>>
                    /\ CountsKeptBut(0)
               ELSE /\ IF StepEntry.uuid = mount_dir_uuid
                       THEN /\ Inserted(root_dir, root_dir', uuid, path,
                                        StepEntry.arg2)
                            /\ initial_files' = initial_files
                       ELSE /\ Inserted(initial_files, initial_files', uuid,
                                        path, StepEntry.arg2)
                            /\ root_dir' = root_dir
                    /\ sizes'[parent_dir.size] =
                           <<sizes[parent_dir.size][1] + 1,
                             sizes[parent_dir.size][2] - 1>>
                    /\ CountsKeptBut(parent_dir.size)
            /\ QueueGrows(path, 1)]_vars

\* The layer keeps every entry it has, as it is and where it is.
LayerKept(od, od_after) ==
    /\ Len(od_after) >= Len(od)
    /\ \A i \in 1..Len(od) : od_after[i] = od[i]

\* The layer keeps every key it has, with the path and type it has.
EntriesKept(od, od_after) ==
    \A i \in 1..Len(od) :
        /\ OD_has(od_after, od[i].k)
        /\ OD_get(od_after, od[i].k).path = od[i].v.path
        /\ OD_get(od_after, od[i].k).type = od[i].v.type

\* C13 as claimed: no step removes an entry from the environment, and every
\* entry keeps its path and kind in the layer that holds it.
C13_EntriesNeverChange ==
    [][/\ EntriesKept(root_dir, root_dir')
       /\ EntriesKept(initial_files, initial_files')
       /\ EntriesKept(_current_files, _current_files')]_vars

\* C13, amended: no step removes an entry from the environment; root_dir and
\* initial_files keep every entry as it is; _current_files keeps every key,
\* whose entry a later create, mkdir, mknod or rename of the same uuid may
\* replace.
C13_EntriesNeverRemoved ==
    [][/\ LayerKept(root_dir, root_dir')
       /\ LayerKept(initial_files, initial_files')
       /\ OD_keys(_current_files) \subseteq OD_keys(_current_files')]_vars

\* The syscall sc removes an entry.
IsRemove(sc) == sc.op \in {"Unlink", "unlink", "RmDir", "rmdir"}

\* A getattr of a uuid was accepted after the unlink of that uuid.
C13_Witness ==
    /\ LastOp = "getattr"
    /\ last.accepted
    /\ last.emitted = 1
    /\ \E i \in 1..(Len(syscalls) - 1) :
          IsRemove(syscalls[i]) /\ syscalls[i].path = LastSyscall.path

\* The step appends one syscall to self.syscalls.
EmitsOne ==
    /\ Len(syscalls') = Len(syscalls) + 1
    /\ SubSeq(syscalls', 1, Len(syscalls)) = syscalls

\* The syscall that the step appends.
StepSyscall == syscalls'[Len(syscalls')]

\* The step takes at most one pending lookup, from the queue of the path,
\* and leaves every other queue as it was.
DrainsOnly(path) ==
    /\ \/ QueueGrows(path, 0)
          /\ PendingFor(_pending_lookups', path) =
                 PendingFor(_pending_lookups, path)
       \/ \E i \in 1..Len(PendingFor(_pending_lookups, path)) :
             PendingFor(_pending_lookups', path) =
                 RemoveAt(PendingFor(_pending_lookups, path), i)
    /\ \A p \in (DOMAIN _pending_lookups \cup DOMAIN _pending_lookups') :
          p # path => PendingFor(_pending_lookups', p) =
                          PendingFor(_pending_lookups, p)

\* _current_files maps uuid after the step and keeps every other entry.
RuntimeSet(uuid) ==
    /\ OD_has(_current_files', uuid)
    /\ \A i \in 1..Len(_current_files) :
          _current_files[i].k # uuid => _current_files'[i] = _current_files[i]

\* The step processes an accepted create, mkdir or mknod.
MakeStep ==
    \/ AcceptedStep("create") \/ AcceptedStep("mkdir") \/ AcceptedStep("mknod")

\* C14: an accepted create, mkdir or mknod adds 1 to the parent's
\* known_children, maps the new uuid in _current_files only (a file of size 0,
\* for mkdir a directory with counts (0, 0)) to parent_path/name, takes at
\* most one pending lookup, of the parent's path, and emits one syscall;
\* create adds the handle to _open_fds; root_dir and initial_files keep their
\* entries.
C14_MakeEffect ==
    [][MakeStep =>
        LET op == StepEntry.op
            parent_dir == EnvGet(ParserState, StepEntry.uuid)
            path == Append(parent_dir.path, StepEntry.arg0)
            made == OD_get(_current_files', StepEntry.arg1)
        IN  /\ sizes'[parent_dir.size] = <<sizes[parent_dir.size][1] + 1,
                                          sizes[parent_dir.size][2]>>
            /\ CountsKeptBut(parent_dir.size)
            /\ RuntimeSet(StepEntry.arg1)
            /\ made.path = path
            /\ IF op = "mkdir"
               THEN /\ made.type = "d"
                    /\ made.size > Len(sizes)
                    /\ sizes'[made.size] = <<0, 0>>
               ELSE made.type = "f" /\ made.size = 0
            /\ UNCHANGED <<root_dir, initial_files>>
            /\ DrainsOnly(parent_dir.path)
            /\ EmitsOne
            /\ StepSyscall.path = path
            /\ _open_fds' = IF op = "create"
                            THEN _open_fds \cup {StepEntry.handle_id}
                            ELSE _open_fds]_vars

\* A create that took a pending lookup of its parent's path was accepted
\* after a mkdir or a mknod.
C14_Witness ==
    /\ LastOp = "create"
    /\ last.accepted
    /\ last.take.taken # 0
    /\ \E i \in 1..(Len(syscalls) - 1) :
          syscalls[i].op \in {"MkDir", "mkdir", "MkNod", "mknod"}

\* C15: an accepted rename takes 1 from the known_children of the source
\* parent and adds 1 to that of the destination parent (nothing changes when
\* the two are one directory), maps the new uuid in _current_files to the
\* destination path with the type and size of the source entry, takes at
\* most one pending lookup, of the source path, and emits one
\* rename(src_path, dst_path).
C15_RenameEffect ==
    [][AcceptedStep("rename") =>
        LET src_parent_dir == EnvGet(ParserState, StepEntry.uuid)
            src_file == EnvGet(ParserState, StepEntry.arg1)
            dst_parent_dir == EnvGet(ParserState, StepEntry.arg2)
            src_path == Append(src_parent_dir.path, StepEntry.arg0)
            dst_path == Append(dst_parent_dir.path, StepEntry.arg3)
            renamed == OD_get(_current_files', StepEntry.arg4)
        IN  /\ \A a \in 1..Len(sizes) :
                  sizes'[a] =
                      <<sizes[a][1]
                           + (IF a = dst_parent_dir.size THEN 1 ELSE 0)
                           - (IF a = src_parent_dir.size THEN 1 ELSE 0),
                        sizes[a][2]>>
            /\ RuntimeSet(StepEntry.arg4)
            /\ renamed = File(dst_path, src_file.type, src_file.size)
            /\ DrainsOnly(src_path)
            /\ EmitsOne
            /\ StepSyscall.src_path = src_path
            /\ StepSyscall.dst_path = dst_path]_vars

\* A rename from one directory to another was accepted and took a pending
\* lookup of the source path.
C15_Witness ==
    /\ LastOp = "rename"
    /\ last.accepted
    /\ last.take.taken # 0
    /\ LastEntry.uuid # LastEntry.arg2

\* C16: an accepted unlink emits rmdir(path) when the target uuid is a
\* directory and unlink(path) otherwise, with the path stored for the target,
\* takes 1 from the parent's known_children, and takes at most one pending
\* lookup, of the target's path.
C16_UnlinkEffect ==
    [][AcceptedStep("unlink") =>
        LET parent_dir == EnvGet(ParserState, StepEntry.uuid)
            file == EnvGet(ParserState, StepEntry.arg1)
        IN  /\ sizes'[parent_dir.size] = <<sizes[parent_dir.size][1] - 1,
                                          sizes[parent_dir.size][2]>>
            /\ CountsKeptBut(parent_dir.size)
            /\ DrainsOnly(file.path)
            /\ EmitsOne
            /\ StepSyscall.path = file.path
            /\ StepSyscall.op \in (IF file.type = "d" THEN {"RmDir", "rmdir"}
                                   ELSE {"Unlink", "unlink"})]_vars

\* The unlink of a directory took a pending lookup of its path and was
\* emitted as rmdir, while a lookup was pending on another path.
C16_Witness ==
    /\ LastOp = "unlink"
    /\ last.accepted
    /\ last.take.taken # 0
    /\ LastSyscall.op \in {"RmDir", "rmdir"}
    /\ \E p \in DOMAIN _pending_lookups :
          p # LastSyscall.path /\ _pending_lookups[p] # <<>>

----------------------------------------------------------------------------
(* Open handles.                                                           *)

\* The handles that the syscalls of the sequence name.
HandlesOf(seq) ==
    {seq[i].handle_id : i \in {j \in 1..Len(seq) : IsOpen(seq[j]) \/ IsClose(seq[j])}}

\* The number of syscalls of the sequence that open, close the handle h.
OpenCount(seq, h) == Cardinality({i \in 1..Len(seq) : Opens(seq[i], h)})

CloseCount(seq, h) == Cardinality({i \in 1..Len(seq) : Closes(seq[i], h)})

\* C17: an accepted open or create puts its handle into _open_fds; a release
\* of a handle of _open_fds takes it out and emits one close with the line's
\* own timing; a release of any other handle is rejected and emits nothing;
\* so no handle has more closes emitted than opens and creates accepted (each
\* of which emits one syscall).
C17_ClosesWithinOpens ==
    [][/\ (AcceptedStep("open") \/ AcceptedStep("create")) =>
              StepEntry.handle_id \in _open_fds'
       /\ (LineStep /\ last'.fields[2] = "release" /\ last'.parsed) =>
              IF StepEntry.handle_id \in _open_fds
              THEN /\ last'.accepted
                   /\ _open_fds' = _open_fds \ {StepEntry.handle_id}
                   /\ EmitsOne
                   /\ IsClose(StepSyscall)
                   /\ StepSyscall.handle_id = StepEntry.handle_id
                   /\ StepSyscall.timestamp = StepEntry.timestamp
                   /\ StepSyscall.duration = StepEntry.duration
              ELSE ~last'.accepted /\ syscalls' = syscalls
       /\ \A h \in HandlesOf(syscalls') :
              CloseCount(syscalls', h) <= OpenCount(syscalls', h)]_vars

----------------------------------------------------------------------------
(* One file parsed twice by one parser.                                    *)

\* What a call of parse leaves in the parser, and how it ended.
Outcome == [pc |-> pc, syscalls |-> syscalls, io_duration |-> io_duration,
            start_timestamp |-> start_timestamp,
            end_timestamp |-> end_timestamp,
            mount_dir_uuid |-> mount_dir_uuid, root_dir |-> root_dir,
            initial_files |-> initial_files,
            _current_files |-> _current_files, sizes |-> sizes,
            _open_fds |-> _open_fds, _pending_lookups |-> _pending_lookups]

\* A clean that keeps the set of open handles.
clean_KeepsHandles ==
    /\ run.n = 1
    /\ pc \in {"done", "IndexError", "ValueError"}
    /\ syscalls' = <<>>
    /\ io_duration' = 0
    /\ start_timestamp' = 0
    /\ end_timestamp' = 0
    /\ mount_dir_uuid' = "None"
    /\ root_dir' = <<>>
    /\ initial_files' = <<>>
    /\ _current_files' = <<>>
    /\ sizes' = <<>>
    /\ _pending_lookups' = <<>>
    /\ run' = [run EXCEPT !.n = 2, !.first = Outcome]
    /\ pc' = "mount"
    /\ nlines' = 0
    /\ last_key' = 0
    /\ last' = NoLast
    /\ UNCHANGED <<impl, _open_fds, mount_path, replay_vars,
                   trace_file>>

\* parser.clean() after parse has returned or raised, and the start of the
\* second parse of the file: self.__init__(masked_files=self.masked_files).
clean ==
    /\ run.n = 1
    /\ pc \in {"done", "IndexError", "ValueError"}
    /\ syscalls' = <<>>
    /\ io_duration' = 0
    /\ start_timestamp' = 0
    /\ end_timestamp' = 0
    /\ mount_dir_uuid' = "None"
    /\ root_dir' = <<>>
    /\ initial_files' = <<>>
    /\ _current_files' = <<>>
    /\ sizes' = <<>>
    /\ _open_fds' = {}
    /\ _pending_lookups' = <<>>
    /\ run' = [run EXCEPT !.n = 2, !.first = Outcome]
    /\ pc' = "mount"
    /\ nlines' = 0
    /\ last_key' = 0
    /\ last' = NoLast
    /\ UNCHANGED <<impl, mount_path, replay_vars,
                   trace_file>>

\* The lines that the next read can return: in the second parse, the line
\* the first parse read at the same place of the file.
Again(lines) ==
    IF run.n # 2 THEN lines
    ELSE LET at == IF pc = "mount" THEN 1 ELSE nlines + 2
         IN  {fields \in lines : at <= Len(run.file) /\ fields = run.file[at]}

\* The file has no more lines.
EndOfFile == run.n = 2 => nlines + 1 = Len(run.file)

NextRepeat ==
    \/ MountLine(Again(MountLines))
    \/ LookupLine(Again(HandleLines), MaxRepeatLines)
    \/ OpenLine(Again(HandleLines), MaxRepeatLines)
    \/ ReleaseLine(Again(HandleLines), MaxRepeatLines)
    \/ FsyncLine(Again(HandleLines), MaxRepeatLines)
    \/ EndOfFile /\ Finish
    \/ clean

SpecRepeat == Begin([NoRun EXCEPT !.n = 1]) /\ [][NextRepeat]_vars

\* C18: after clean() the parser is as a new parser is: no syscall, layer,
\* open handle or pending lookup of the first parse is left; and the second
\* parse of the same file ends as the first did, with the same syscalls, the
\* same layers and the same start_timestamp, end_timestamp and io_duration.
C18_SecondParseSame ==
    /\ (run.n = 2 /\ pc = "mount") => __init__
    /\ (run.n = 2 /\ pc \in {"done", "IndexError", "exit"}) =>
           Outcome = run.first

\* The first parse left an open handle and a syscall, and the second parse
\* has ended.
C18_Witness ==
    /\ run.n = 2
    /\ pc = "done"
    /\ run.first._open_fds # {}
    /\ Len(syscalls) >= 2

----------------------------------------------------------------------------
(* Replay.                                                                 *)

\* The call returns (TRUE) or raises (FALSE), and leaves the context c.
Outcome_(ok, c) == [ok |-> ok, ctx |-> c]

\* ctx.scandirs, a dict of paths to dicts of offsets to deques of parked
\* directory iterators, as a list of (path, offset, deque) in the order of
\* insertion.  An iterator is the number of entries it has yet to yield.
scandir_index(c, path, offset) ==
    {i \in 1..Len(c.scandirs) :
        c.scandirs[i].path = path /\ c.scandirs[i].offset = offset}

\* ctx.scandirs[path][offset], the empty deque when there is no such key.
Parked(c, path, offset) ==
    IF scandir_index(c, path, offset) = {} THEN <<>>
    ELSE c.scandirs[CHOOSE i \in scandir_index(c, path, offset) :
                        TRUE].iterators

\* A pop that would leave the iterator in its deque.
scandir_pop_Kept(c, path, offset) == c

\* ctx.scandirs[path][offset].pop(): the deque loses its last iterator.
scandir_pop(c, path, offset) ==
    [c EXCEPT !.scandirs =
        [i \in 1..Len(@) |->
            IF i \in scandir_index(c, path, offset)
            THEN [@[i] EXCEPT !.iterators = SubSeq(@, 1, Len(@) - 1)]
            ELSE @[i]]]

\* ctx.scandirs.setdefault(path, {}).setdefault(new_offset, deque())
\*     .append(iterator)
scandir_park(c, path, new_offset, iterator) ==
    IF scandir_index(c, path, new_offset) = {}
    THEN [c EXCEPT !.scandirs =
             Append(@, [path |-> path, offset |-> new_offset,
                        iterators |-> <<iterator>>])]
    ELSE [c EXCEPT !.scandirs =
             [i \in 1..Len(@) |->
                 IF i \in scandir_index(c, path, new_offset)
                 THEN [@[i] EXCEPT !.iterators = Append(@, iterator)]
                 ELSE @[i]]]

\* ReadDir.perform(ctx) of operations.py, which no replay calls: the
\* iterator is advanced iter_range times, and parked under
\* offset + iter_range.
perform(c, fs, this) ==
    LET path == this.path
        offset == this.offset
        entries_num == this.entries_num
    IN  IF offset = 0 /\ ~isdir(fs, path) THEN {Outcome_(FALSE, c)}
        ELSE IF offset # 0 /\ Parked(c, path, offset) = <<>>
        THEN {Outcome_(FALSE, c)}
        ELSE
        LET iterator == IF offset = 0 THEN listdir(fs, path)
                        ELSE Parked(c, path, offset)[
                                 Len(Parked(c, path, offset))]
            c1 == IF offset = 0 THEN c ELSE scandir_pop(c, path, offset)
            iter_range == IF entries_num < 128 THEN entries_num + 1 ELSE 128
            new_offset == offset + iter_range
        IN  IF iterator < iter_range THEN {Outcome_(TRUE, c1)}
            ELSE {Outcome_(TRUE,
                           scandir_park(c1, path, new_offset,
                                        iterator - iter_range))}

\* posix_readdir(ctx, path, offset, size): os.scandir raises unless the path
\* is a directory, and the lookup or the pop of ctx.scandirs raises when no
\* iterator is parked under (path, offset).  The iterator is advanced
\* range(offset, new_offset) times; StopIteration ends the call, and
\* otherwise the iterator is parked under new_offset.
posix_readdir(c, fs, this) ==
    LET path == this.path
        offset == this.offset
        size == this.entries_num
    IN  IF offset = 0 /\ ~isdir(fs, path) THEN {Outcome_(FALSE, c)}
        ELSE IF offset # 0 /\ Parked(c, path, offset) = <<>>
        THEN {Outcome_(FALSE, c)}
        ELSE
        LET iterator == IF offset = 0 THEN listdir(fs, path)
                        ELSE Parked(c, path, offset)[
                                 Len(Parked(c, path, offset))]
            c1 == IF offset = 0 THEN c ELSE scandir_pop(c, path, offset)
            new_offset == offset + (IF size < 128 THEN size ELSE 128)
        IN  IF iterator < new_offset - offset THEN {Outcome_(TRUE, c1)}
            ELSE {Outcome_(TRUE,
                           scandir_park(c1, path, new_offset,
                                        iterator - (new_offset - offset)))}

\* What SYSCALLS['posix_' + op](ctx, ...) can do for a syscall record.
\* posix_getattr is os.stat(path), which raises when nothing is at the
\* path.  posix_open and posix_create put the handle into ctx.fds when
\* os.open returns.  posix_release pops the handle and closes it, and
\* posix_fsync, posix_fdatasync, posix_read and posix_write look it up:
\* KeyError when ctx.fds has no such handle.  The wrapper converts the size
\* and the offset of a read or a write to int first, and raises when one of
\* them is no numeral.  What the operating system does with a path or an
\* open file is not modelled, and either outcome is possible.
Outcomes(c, fs, this) ==
    CASE this.op = "getattr" -> {Outcome_(exists(fs, this.path), c)}
      [] this.op \in {"open", "create"} ->
            {Outcome_(FALSE, c),
             Outcome_(TRUE, [c EXCEPT !.fds = @ \cup {this.handle_id}])}
      [] this.op = "readdir" -> posix_readdir(c, fs, this)
      [] this.op = "release" ->
            IF this.handle_id \in c.fds
            THEN {Outcome_(TRUE, [c EXCEPT !.fds = @ \ {this.handle_id}])}
            ELSE {Outcome_(FALSE, c)}
      [] this.op \in {"fsync", "fdatasync"} ->
            IF this.handle_id \in c.fds
            THEN {Outcome_(TRUE, c), Outcome_(FALSE, c)}
            ELSE {Outcome_(FALSE, c)}
      [] this.op \in {"read", "write"} ->
            IF this.handle_id \in c.fds /\ CanConvert(this.size)
                                        /\ CanConvert(this.offset)
            THEN {Outcome_(TRUE, c), Outcome_(FALSE, c)}
            ELSE {Outcome_(FALSE, c)}
      [] OTHER -> {Outcome_(TRUE, c), Outcome_(FALSE, c)}

\* time_ns() - start of the wrapper of a syscall: some wall-clock durations.
Measured == {1, 3}

\* A delay without the second formula for overlapping records.
delay_NoFallback(this, next_sc) ==
    next_sc.timestamp - (this.timestamp + this.duration)

\* The delay that replay computes between a record and its successor.
delay(this, next_sc) ==
    IF next_sc.timestamp - (this.timestamp + this.duration) < 0
    THEN next_sc.timestamp - this.timestamp
    ELSE next_sc.timestamp - (this.timestamp + this.duration)

\* One turn of the loop of replay over pairwise(parser.syscalls): the pairs
\* are (record, successor), and (last record, None).  A call that raises
\* is reported and the turn ends (continue).  sleep raises ValueError for a
\* negative delay.
replay_turn(measured) ==
    /\ impl = "ioreplay"
    /\ pc \in {"done", "prepared", "replay"}
    /\ sc_index <= Len(syscalls)
    /\ sc_index' = sc_index + 1
    /\ \E call \in Outcomes(ctx, mount_path, syscalls[sc_index]) :
          /\ ctx' = call.ctx
          /\ IF ~call.ok
             THEN /\ issued' = Append(issued, [index |-> sc_index, ok |-> FALSE,
                                               slept |-> FALSE, delay |-> 0])
                  /\ pc' = "replay"
                  /\ UNCHANGED <<replayed, delays>>
             ELSE /\ replayed' = replayed + measured
                  /\ IF sc_index < Len(syscalls)
                     THEN \E d \in {delay(syscalls[sc_index],
                                          syscalls[sc_index + 1])} :
                             /\ delays' = delays + d
                             /\ issued' = Append(issued,
                                    [index |-> sc_index, ok |-> TRUE,
                                     slept |-> TRUE, delay |-> d])
                             /\ pc' = IF d < 0 THEN "ValueError" ELSE "replay"
                     ELSE /\ issued' = Append(issued,
                                    [index |-> sc_index, ok |-> TRUE,
                                     slept |-> FALSE, delay |-> 0])
                          /\ pc' = "replay"
                          /\ UNCHANGED delays
    /\ UNCHANGED <<impl, syscalls, io_duration, start_timestamp, end_timestamp,
                   mount_dir_uuid, root_dir, initial_files, _current_files,
                   sizes, _open_fds, _pending_lookups, nlines, last_key, last,
                   mount_path, run, trace_file>>

\* After the loop: the two overheads are quotients by the program durations.
replay_report ==
    /\ pc = "replay"
    /\ sc_index = Len(syscalls) + 1
    /\ LET prog_duration == replayed + delays
           prev_prog_duration == end_timestamp - start_timestamp
       IN  pc' = IF prog_duration = 0 \/ prev_prog_duration = 0
                 THEN "ZeroDivisionError" ELSE "replayed"
    /\ UNCHANGED <<impl, syscalls, io_duration, start_timestamp, end_timestamp,
                   mount_dir_uuid, root_dir, initial_files, _current_files,
                   sizes, _open_fds, _pending_lookups, nlines, last_key, last,
                   mount_path, run, replay_vars,
                   trace_file>>

\* Traces of the mount and its directory a: a lookup of a, and getattr of
\* both at several times, some of which overlap.
ReplayLines ==
    {lookup_line("0", "0", "M", "a", "U", "d", "0")}
    \cup {plain_line("getattr", t, d, uuid) :
             t \in {"0", "1", "3"}, d \in {"0", "2"}, uuid \in {"M", "U"}}

NextReplay ==
    \/ MountLine(MountLines)
    \/ LookupLine(ReplayLines, MaxReplayLines)
    \/ GetAttrLine(ReplayLines, MaxReplayLines)
    \/ Finish
    \/ create_env
    \/ \E measured \in Measured : replay_turn(measured)
    \/ replay_report

SpecReplay == Init /\ [][NextReplay]_vars

\* A turn of the loop of replay is taken.
TurnStep == sc_index' = sc_index + 1

\* What the turn taken did.
Turn == issued'[Len(issued')]

\* C19: each turn of replay issues the next record of the list, so that
\* every record is issued once and in list order; when the record has a
\* successor the engine sleeps next.timestamp - (timestamp + duration), or
\* next.timestamp - timestamp when that is negative, and adds it to delays;
\* after the last record it does not sleep.
C19_DelayAfterEveryRecord ==
    [][TurnStep =>
          /\ Len(issued') = sc_index
          /\ \A k \in 1..Len(issued') : issued'[k].index = k
          /\ IF sc_index < Len(syscalls)
             THEN /\ Turn.slept
                  /\ Turn.delay = delay(syscalls[sc_index],
                                        syscalls[sc_index + 1])
                  /\ delays' = delays + Turn.delay
             ELSE ~Turn.slept /\ delays' = delays]_vars

\* C20: a call that raises does not end replay: the loop goes on to the
\* next record, replayed is left as it was, and when the record has a
\* successor the gap to it is slept and added to delays.
C20_FailedCallStillSleeps ==
    [][(TurnStep /\ ~Turn.ok) =>
          /\ pc' = "replay"
          /\ replayed' = replayed
          /\ sc_index < Len(syscalls) =>
                 /\ Turn.slept
                 /\ delays' - delays = delay(syscalls[sc_index],
                                             syscalls[sc_index + 1])]_vars

----------------------------------------------------------------------------
(* The totals of a parse.                                                  *)

\* C21: every accepted line, whether it emits a syscall or not, adds its
\* duration to io_duration and raises end_timestamp to its timestamp +
\* duration when that is larger; a rejected line changes neither; and after
\* the last line start_timestamp is the smallest timestamp of the emitted
\* syscalls, with io_duration and end_timestamp as the lines left them.
C21_Totals ==
    [][/\ LineStep =>
             IF last'.accepted
             THEN /\ io_duration' = io_duration + StepEntry.duration
                  /\ end_timestamp' >= end_timestamp
                  /\ end_timestamp' >=
                         StepEntry.timestamp + StepEntry.duration
                  /\ end_timestamp' \in
                         {end_timestamp,
                          StepEntry.timestamp + StepEntry.duration}
             ELSE UNCHANGED <<io_duration, end_timestamp>>
       /\ (pc = "lines" /\ pc' = "done") =>
             /\ \E i \in 1..Len(syscalls') :
                    start_timestamp' = syscalls'[i].timestamp
             /\ \A i \in 1..Len(syscalls') :
                    start_timestamp' <= syscalls'[i].timestamp
             /\ UNCHANGED <<io_duration, end_timestamp>>]_vars

\* A parse has ended whose lines were a rejected one, one that emitted a
\* syscall, and last an accepted lookup, which emits nothing but is counted.
C21_Witness ==
    /\ pc = "done"
    /\ last.rejected > 0
    /\ LastOp = "lookup"
    /\ last.accepted
    /\ Len(syscalls) = 1
    /\ io_duration > syscalls[1].duration

----------------------------------------------------------------------------
(* The format of the lines.                                                *)

\* The line without its last field: what split returns for a line whose
\* last argument is empty and has no comma before the end of the line.
Short(fields) == SubSeq(fields, 1, Len(fields) - 1)

\* Second lines of a file: the mount line with 13 and with 12 fields, a line
\* of another opcode, and lines that from_str does not take.
FirstLines ==
    MountLines
    \cup {Short(fields) : fields \in MountLines}
    \cup {plain_line("getattr", "0", "0", "M"),
          Line13("x", "mount", "0", "M", "0", <<>>),
          <<"0", "mount", "0">>}

\* Data lines of 13 fields and the same lines with 12, and lines of 3, 11
\* and 14 fields: a lookup of the file a, getattr of a and of the mount.
FormatLines ==
    LET whole == {lookup_line("0", "1", "M", "a", "U", "f", "5"),
                  plain_line("getattr", "1", "2", "U"),
                  plain_line("getattr", "3", "1", "M")}
    IN  whole
        \cup {Short(fields) : fields \in whole}
        \cup {Short(Short(fields)) : fields \in whole}
        \cup {Append(fields, "") : fields \in whole}
        \cup {<<"1", "getattr", "1">>, <<"", "getattr", "1">>}

NextFormat ==
    \/ MountLine(FirstLines)
    \/ UnsortableLine(FormatLines)
    \/ LookupLine(FormatLines, MaxFormatLines)
    \/ GetAttrLine(FormatLines, MaxFormatLines)
    \/ Finish

\* The caller keeps the lines read, the second line of the file first.
SpecFormat == Begin([NoRun EXCEPT !.n = 1]) /\ [][NextFormat]_vars

\* The step reads the second line of the file.
MountStep == pc = "mount" /\ pc' # "mount"

\* The second line of the file, once read.
MountFields == run'.file[1]

\* The fields are those of a record: 12 or 13 of them, with numerals for
\* timestamp, duration and handle_id.
WellFormed(fields) ==
    /\ Len(fields) \in {12, 13}
    /\ IsInt(fields[1])
    /\ IsInt(fields[3])
    /\ IsInt(fields[5])

\* C22: when the second line of the file is a well-formed record of opcode
\* mount, its uuid is the one entry of the root layer, with the empty path,
\* type "d" and size [0, 0], and nothing else is set; otherwise the program
\* exits with nothing set.  In both cases no syscall is emitted and no data
\* line is processed before, and data lines are processed after a mount
\* line only.
C22_MountLineFirst ==
    [][/\ MountStep =>
             /\ syscalls' = <<>>
             /\ nlines = 0 /\ nlines' = 0
             /\ UNCHANGED <<initial_files, _current_files, _open_fds,
                            _pending_lookups, io_duration>>
             /\ IF WellFormed(MountFields) /\ MountFields[2] = "mount"
                THEN /\ pc' = "lines"
                     /\ mount_dir_uuid' = MountFields[4]
                     /\ Len(root_dir') = 1
                     /\ root_dir'[1].k = MountFields[4]
                     /\ root_dir'[1].v.path = <<>>
                     /\ root_dir'[1].v.type = "d"
                     /\ sizes'[root_dir'[1].v.size] = <<0, 0>>
                ELSE /\ pc' = "exit"
                     /\ UNCHANGED <<root_dir, sizes, mount_dir_uuid>>
       /\ LineStep => (pc = "lines" /\ OD_has(root_dir, mount_dir_uuid))
       /\ pc = "exit" => UNCHANGED vars]_vars

\* A mount line of 12 fields has seeded the root layer, and a data line was
\* processed after it.
C22_Witness ==
    /\ pc = "done"
    /\ Len(run.file[1]) = 12
    /\ OD_has(root_dir, "M")
    /\ nlines > 0


\* What the handler of the line does to the parser as it is.
Handled(fields) ==
    LET entry == IF impl = "parser" THEN from_str(fields)
                 ELSE from_str_ioreplay(fields)
    IN  IF entry.raised THEN Raise(ParserState)
        ELSE Dispatch(ParserState, entry)

\* The step does to the parser what the record s says.
StepIs(s) ==
    /\ syscalls' = s.syscalls
    /\ root_dir' = s.root_dir
    /\ initial_files' = s.initial_files
    /\ _current_files' = s._current_files
    /\ sizes' = s.sizes
    /\ _open_fds' = s._open_fds
    /\ _pending_lookups' = s._pending_lookups
    /\ last'.accepted = ~s.raised

\* C23: a line of 12 fields does what the line of 13 fields with an empty
\* last argument does; a line of any other number of fields is rejected,
\* changes nothing and does not end the parse; an accepted line counts
\* with the numerals of its fields 1 and 3, times 1000, as timestamp and
\* duration.
C23_TwelveOrThirteenFields ==
    [][/\ (LineStep /\ Len(last'.fields) = 12) =>
              StepIs(Handled(Append(last'.fields, "")))
       /\ (LineStep /\ Len(last'.fields) \notin {12, 13}) =>
              /\ ~last'.accepted
              /\ SameTables
              /\ UNCHANGED <<syscalls, io_duration, end_timestamp>>
       /\ pc = "lines" => pc' \in {"lines", "done", "IndexError"}
       /\ (LineStep /\ last'.accepted) =>
              /\ io_duration' =
                     io_duration + int(last'.fields[3]) * 1000
              /\ end_timestamp' >=
                     (int(last'.fields[1]) + int(last'.fields[3])) * 1000
              /\ (last'.emitted = 1 /\ last'.take.taken = 0) =>
                     /\ StepSyscall.timestamp = int(last'.fields[1]) * 1000
                     /\ StepSyscall.duration = int(last'.fields[3]) * 1000
      ]_vars

----------------------------------------------------------------------------
(* The sort of the trace file.                                             *)

\* A line of a file as text: its first field, tags for the rest of it in
\* their order, and whether a newline ends it.  Only the last line of a
\* file can be without one.
TextLine(first, tag, nl) == [first |-> first, rest |-> <<tag>>, nl |-> nl]

\* key_fun = lambda line: int(line.split(',', maxsplit=1)[0]).
key_fun(line) == int(line.first)

\* The lines that a reader finds in what writelines has written: writelines
\* adds no newline, so a line without one runs into the line after it.
RECURSIVE ReadBack(_)
ReadBack(written) ==
    IF Len(written) <= 1 THEN written
    ELSE IF written[1].nl
    THEN <<written[1]>> \o ReadBack(Tail(written))
    ELSE ReadBack(<<[first |-> written[1].first,
                     rest |-> written[1].rest \o written[2].rest,
                     nl |-> written[2].nl]>> \o Tail(Tail(written)))

\* list(islice(input_iterator, chunk_size)), for the k-th time.
islice(lines, chunk_size, k) ==
    SubSeq(lines, (k - 1) * chunk_size + 1, Min({k * chunk_size, Len(lines)}))

\* current_chunk.sort(key=key_fun): stable.
chunk_sort(chunk) ==
    LET rank(i) == 1 + Cardinality({j \in 1..Len(chunk) :
                         \/ key_fun(chunk[j]) < key_fun(chunk[i])
                         \/ key_fun(chunk[j]) = key_fun(chunk[i]) /\ j < i})
    IN  [r \in 1..Len(chunk) |-> chunk[CHOOSE i \in 1..Len(chunk) : rank(i) = r]]

\* heapq.merge(*chunks, key=key_fun): the smallest head goes first, and of
\* equal heads the one of the earlier chunk.
RECURSIVE merge(_)
merge(chunks) ==
    LET full == {k \in 1..Len(chunks) : chunks[k] # <<>>}
    IN  IF full = {} THEN <<>>
        ELSE LET k == CHOOSE c \in full : \A o \in full :
                          \/ key_fun(Head(chunks[c])) < key_fun(Head(chunks[o]))
                          \/ key_fun(Head(chunks[c])) = key_fun(Head(chunks[o]))
                             /\ c <= o
             IN  <<Head(chunks[k])>>
                 \o merge([chunks EXCEPT ![k] = Tail(chunks[k])])

\* sort_trace_file(path, chunk_size) on the lines of the file: the chunks
\* are sorted and written to files of their own, then the file is written
\* from its start: headers, mount_entry and the merge of the chunk files.
sort_trace_file(lines, chunk_size) ==
    LET headers == lines[1]
        mount_entry == lines[2]
        input_iterator == SubSeq(lines, 3, Len(lines))
        number == (Len(input_iterator) + chunk_size - 1) \div chunk_size
        chunks == [k \in 1..number |->
                      ReadBack(chunk_sort(islice(input_iterator,
                                                 chunk_size, k)))]
    IN  ReadBack(<<headers, mount_entry>> \o merge(chunks))

\* The trace files: a header line, a mount line and up to MaxSortLines data
\* lines with first fields "0", "1" and "2".
Files ==
    LET tag == <<"a", "b", "c", "d", "e">>
    IN  {[lines |-> <<TextLine("timestamp", "header", TRUE),
                      TextLine("0", "mount", TRUE)>>
                    \o [i \in 1..n |->
                           TextLine(first[i], tag[i], i < n \/ nl)],
          sorts |-> 0] :
            <<n, first, nl>> \in
                UNION {{<<m, f, b>> : f \in [1..m -> {"0", "1", "2"}],
                                      b \in BOOLEAN} :
                       m \in 0..MaxSortLines}}

\* main() with --sort-trace: sort_trace_file(args.io_trace_path,
\* args.chunk_size), here up to MaxSorts times on one file.
sort_trace(chunk_size) ==
    /\ impl = "ioreplay"
    /\ pc = "mount"
    /\ trace_file.sorts < MaxSorts
    /\ trace_file' = [lines |-> sort_trace_file(trace_file.lines, chunk_size),
                      sorts |-> trace_file.sorts + 1]
    /\ UNCHANGED <<impl, pc, syscalls, io_duration, start_timestamp,
                   end_timestamp, mount_dir_uuid, root_dir, initial_files,
                   _current_files, sizes, _open_fds, _pending_lookups, nlines,
                   last_key, last, mount_path, run, replay_vars>>

NextSort == \E chunk_size \in 1..MaxChunkSize : sort_trace(chunk_size)

SpecSort == Start(NoRun, Files) /\ [][NextSort]_vars

\* The data lines of a file.
DataLines(file) == SubSeq(file.lines, 3, Len(file.lines))

\* The sequence holds the lines of the other, each as often.
Permutation(seq, other) ==
    /\ Len(seq) = Len(other)
    /\ \A i \in 1..Len(seq) :
          Cardinality({j \in 1..Len(seq) : seq[j] = seq[i]}) =
          Cardinality({j \in 1..Len(other) : other[j] = seq[i]})

\* C24: a run of sort_trace_file leaves the first two lines of the file as
\* they are and writes after them a permutation of the data lines, in
\* non-decreasing order of the integer of the first field, whatever the
\* chunk size; and a run on the file it has written, with any chunk size,
\* writes the same file.
C24_SortTraceFile ==
    [][trace_file'.sorts = trace_file.sorts + 1 =>
          /\ trace_file'.lines[1] = trace_file.lines[1]
          /\ trace_file'.lines[2] = trace_file.lines[2]
          /\ Permutation(DataLines(trace_file'), DataLines(trace_file))
          /\ \A i \in 1..(Len(DataLines(trace_file')) - 1) :
                key_fun(DataLines(trace_file')[i]) <=
                    key_fun(DataLines(trace_file')[i + 1])
          /\ \A chunk_size \in 1..MaxChunkSize :
                sort_trace_file(trace_file'.lines, chunk_size) =
                    trace_file'.lines]_vars

----------------------------------------------------------------------------
(* The handle table of replay.                                             *)

NextFds ==
    \/ MountLine(MountLines)
    \/ LookupLine(HandleLines, MaxFdLines)
    \/ OpenLine(HandleLines, MaxFdLines)
    \/ ReleaseLine(HandleLines, MaxFdLines)
    \/ FsyncLine(HandleLines, MaxFdLines)
    \/ Finish
    \/ \E measured \in Measured : replay_turn(measured)
    \/ replay_report

SpecFds == Init /\ [][NextFds]_vars

\* Every os.open of the replay so far has returned.
EveryOpenReturned ==
    \A k \in 1..Len(issued) : IsOpen(syscalls[k]) => issued[k].ok

\* C25, for the whole stream of emitted syscalls: when replay has issued
\* every syscall and every os.open has returned, the handles of ctx.fds
\* are the handles that the parser's _open_fds held after the last line.
C25_HandleTableIsOpenSet ==
    (pc \in {"replay", "replayed", "ZeroDivisionError"}
     /\ sc_index = Len(syscalls) + 1
     /\ EveryOpenReturned)
        => ctx.fds = _open_fds

----------------------------------------------------------------------------
(* What coalescing leaves in the pending-lookup table.                     *)

\* The line processed last was coalesced with a pending lookup of its path.
LastCoalesced == last.take.called /\ last.take.taken # 0

\* C26 as claimed: after an event that was coalesced with a lookup of its
\* path, no pending lookup is queued for that path.
C26_QueueEmptyAfterCoalescing ==
    LastCoalesced => QueueAfter = <<>>

\* C26, amended: an event that was coalesced with a lookup of its path has
\* taken that one entry from the queue of the path; the other entries of
\* the queue stay, in their order, so the queue is empty afterwards only
\* when the entry taken was the only one.
C26_OneEntryTaken ==
    LastCoalesced =>
        /\ Len(QueueAfter) = Len(QueueBefore) - 1
        /\ \A k \in 1..Len(QueueAfter) :
              QueueAfter[k] = QueueBefore[IF k < last.take.taken
                                          THEN k ELSE k + 1]

\* An event was coalesced with one of two pending lookups of its path.
C26_Witness ==
    /\ LastCoalesced
    /\ LastOp \in Drainers
    /\ Len(QueueBefore) = 2
    /\ Len(QueueAfter) = 1

----------------------------------------------------------------------------
(* The directory iterators of replay.                                      *)

MaxScanLines == 4

\* Traces about the directory r/d of the mount ("R" is r, "D" is r/d): the
\* lookups that find the two, and readdirs of r/d: first pages of 2, of 4
\* and of 250 entries, and second pages at the offsets 2 and 3.
ScanLines ==
    {lookup_line("0", "0", "M", "r", "R", "d", "0"),
     lookup_line("0", "0", "R", "d", "D", "d", "0"),
     readdir_line("0", "0", "D", "0", "2"),
     readdir_line("0", "0", "D", "0", "4"),
     readdir_line("0", "0", "D", "0", "250"),
     readdir_line("0", "0", "D", "2", "2"),
     readdir_line("0", "0", "D", "3", "2")}

NextScan ==
    \/ MountLine(MountLines)
    \/ LookupLine(ScanLines, MaxScanLines)
    \/ ReadDirLine(ScanLines, MaxScanLines)
    \/ Finish
    \/ create_env
    \/ \E measured \in Measured : replay_turn(measured)
    \/ replay_report

SpecScan == Init /\ [][NextScan]_vars

\* The turn taken issues a readdir that has an iterator to work on: the
\* directory is there for a first page, or an iterator is parked under
\* (path, offset).
ReadDirTurn ==
    /\ TurnStep
    /\ syscalls[sc_index].op = "readdir"
    /\ IF syscalls[sc_index].offset = 0
       THEN isdir(mount_path, syscalls[sc_index].path)
       ELSE Parked(ctx, syscalls[sc_index].path,
                   syscalls[sc_index].offset) # <<>>

\* The iterator of the turn: a fresh one over the directory at offset 0,
\* else the one parked last under (path, offset).
TurnIterator ==
    IF syscalls[sc_index].offset = 0
    THEN listdir(mount_path, syscalls[sc_index].path)
    ELSE Parked(ctx, syscalls[sc_index].path, syscalls[sc_index].offset)[
             Len(Parked(ctx, syscalls[sc_index].path,
                        syscalls[sc_index].offset))]

\* The context once the iterator of the turn is taken.
TurnPopped ==
    IF syscalls[sc_index].offset = 0 THEN ctx
    ELSE scandir_pop(ctx, syscalls[sc_index].path, syscalls[sc_index].offset)

----------------------------------------------------------------------------
(* The lookups of one user syscall.                                        *)

MaxChainLines == 4

\* Traces of an open of a/b/c ("A" is a, "B" is a/b, "C" is a/b/c): the
\* lookups of a, of b and of c and the open of c, each at a time that is
\* the end of the event before it, or later than that.
ChainLines ==
    {lookup_line("0", "1", "M", "a", "A", "d", "0")}
    \cup {lookup_line(t, "1", "A", "b", "B", "d", "0") : t \in {"1", "2"}}
    \cup {lookup_line(t, "1", "B", "c", "C", "f", "0") : t \in {"2", "3"}}
    \cup {open_line(t, "1", "C", "7") : t \in {"3", "4", "5"}}

NextChain ==
    \/ MountLine(MountLines)
    \/ LookupLine(ChainLines, MaxChainLines)
    \/ OpenLine(ChainLines, MaxChainLines)
    \/ Finish

\* The caller keeps the lines read.
SpecChain == Begin([NoRun EXCEPT !.n = 1]) /\ [][NextChain]_vars

\* The k-th data line of the file read.
DataEntry(k) == from_str_ioreplay(run.file[k + 1])

\* The file read is the mount line, the lookups of a under the mount, of b
\* under a and of c under a/b, and the open of a/b/c.
LookupsThenOpen ==
    /\ Len(run.file) = 5
    /\ \A k \in 1..3 : DataEntry(k).op = "lookup"
    /\ DataEntry(1).uuid = "M" /\ DataEntry(1).arg1 = "A"
    /\ DataEntry(2).uuid = "A" /\ DataEntry(2).arg1 = "B"
    /\ DataEntry(3).uuid = "B" /\ DataEntry(3).arg1 = "C"
    /\ DataEntry(4).op = "open" /\ DataEntry(4).uuid = "C"

\* Each event starts within the window after the end of the event before.
EachInWindow ==
    \A k \in 1..3 :
        Fits(<<DataEntry(k).timestamp, DataEntry(k).duration>>,
             DataEntry(k + 1).timestamp)

----------------------------------------------------------------------------
(* An event that no pending lookup fits.                                   *)

\* The step processes an accepted line of a handler that drains, and no
\* pending lookup of the path that the handler searches fits the window.
NoFitStep ==
    /\ LineStep
    /\ last'.accepted
    /\ last'.fields[2] \in Drainers
    /\ last'.take.called
    /\ Fitting(PendingFor(_pending_lookups, last'.take.path),
               StepEntry.timestamp) = {}

\* C29: an event whose path has no pending lookup that fits the window is
\* emitted alone, with its own timestamp and duration, and the table of
\* pending lookups is left as it was: every pending lookup of that path and
\* of every other path stays queued, in the same order.
C29_NoFitLeavesTable ==
    [][NoFitStep =>
          /\ Len(syscalls') = Len(syscalls) + 1
          /\ SubSeq(syscalls', 1, Len(syscalls)) = syscalls
          /\ syscalls'[Len(syscalls')].timestamp = StepEntry.timestamp
          /\ syscalls'[Len(syscalls')].duration = StepEntry.duration
          /\ _pending_lookups' = _pending_lookups]_vars

\* A pending lookup stayed queued while a getattr of its path was emitted
\* alone, and the getattr after that was coalesced with it.
C29_Witness ==
    /\ pc = "lines"
    /\ nlines = 3
    /\ Len(syscalls) = 2
    /\ \A k \in 1..2 : /\ syscalls[k].op \in {"GetAttr", "getattr"}
                       /\ syscalls[k].path = last.take.path
    /\ LastCoalesced
    /\ Len(QueueBefore) = 1
    /\ syscalls[2].timestamp = QueueBefore[1][1]

----------------------------------------------------------------------------
(* Data operations.                                                        *)

MaxDataLines == 3

\* Traces about the file a of the mount ("U") and its handle 7: the lookup
\* that finds it, its open, and reads, writes and flushes of 5 bytes at
\* offset 0 that start when the lookup ends, or later.
DataOpLines ==
    {lookup_line("0", "1", "M", "a", "U", "f", "0"),
     open_line("1", "0", "U", "7")}
    \cup {rw_line(op, t, "1", "7") :
             op \in {"read", "write", "flush"}, t \in {"1", "2"}}

NextData ==
    \/ MountLine(MountLines)
    \/ LookupLine(DataOpLines, MaxDataLines)
    \/ OpenLine(DataOpLines, MaxDataLines)
    \/ ReadLine(DataOpLines, MaxDataLines)
    \/ WriteLine(DataOpLines, MaxDataLines)
    \/ FlushLine(DataOpLines, MaxDataLines)
    \/ Finish

SpecData == Init /\ [][NextData]_vars

\* The step appends one syscall that carries the line's own timestamp,
\* duration and handle.
EmitsOwn ==
    /\ Len(syscalls') = Len(syscalls) + 1
    /\ SubSeq(syscalls', 1, Len(syscalls)) = syscalls
    /\ syscalls'[Len(syscalls')].timestamp = StepEntry.timestamp
    /\ syscalls'[Len(syscalls')].duration = StepEntry.duration
    /\ syscalls'[Len(syscalls')].handle_id = StepEntry.handle_id

\* C30: a read or a write line appends exactly one syscall, with the line's
\* own timestamp and duration, its handle, and its size (arg1) and offset
\* (arg0); a flush line appends nothing; none of the three changes the
\* environment, the open handles or the pending lookups, whether or not a
\* pending lookup fits the window.
C30_DataOpsLeaveTables ==
    [][(LineStep /\ last'.fields[2] \in {"read", "write", "flush"}) =>
          /\ SameTables
          /\ IF last'.fields[2] = "flush" THEN syscalls' = syscalls
             ELSE /\ EmitsOwn
                  /\ CanConvert(syscalls'[Len(syscalls')].size)
                  /\ annotation(syscalls'[Len(syscalls')].size) =
                         int(StepEntry.arg1)
                  /\ CanConvert(syscalls'[Len(syscalls')].offset)
                  /\ annotation(syscalls'[Len(syscalls')].offset) =
                         int(StepEntry.arg0)]_vars

\* A read was appended with its own timing while a pending lookup of the
\* path of its file fits the window.
C30_Witness ==
    /\ LastOp = "read"
    /\ last.accepted
    /\ last.emitted = 1
    /\ Len(syscalls) = 1
    /\ syscalls[1].timestamp = LastEntry.timestamp
    /\ syscalls[1].duration = LastEntry.duration
    /\ Fitting(PendingFor(_pending_lookups, <<"a">>),
               LastEntry.timestamp) # {}

----------------------------------------------------------------------------
(* The timing of an emitted syscall.                                       *)

MaxTimingLines == 4

\* Traces of the directories a and a/b and the file a/b/c ("A", "B", "C"):
\* the lookups of the three, each at the end of the event before it or
\* later, and events on each of them: getattr, open, setattr and unlink.
TimingLines ==
    ChainLines
    \cup {plain_line("getattr", t, d, uuid) :
             t \in {"2", "3"}, d \in {"0", "1"}, uuid \in {"A", "B"}}
    \cup {setattr_line("4", "1", "C"),
          unlink_line("3", "1", "B", "c", "C")}

NextTiming ==
    \/ MountLine(MountLines)
    \/ LookupLine(TimingLines, MaxTimingLines)
    \/ GetAttrLine(TimingLines, MaxTimingLines)
    \/ SetAttrLine(TimingLines, MaxTimingLines)
    \/ OpenLine(TimingLines, MaxTimingLines)
    \/ UnlinkLine(TimingLines, MaxTimingLines)
    \/ Finish

SpecTiming == Init /\ [][NextTiming]_vars

\* The step processes an accepted line and appends a syscall.
EmitStep == LineStep /\ last'.accepted /\ last'.emitted = 1

\* C31: a syscall emitted for an accepted event (t, d) has a timestamp that
\* is at most t, a duration that is at least d, and timestamp + duration
\* = t + d, whether or not lookups were fused into it; end_timestamp is at
\* least timestamp + duration of every emitted syscall, and after parse
\* start_timestamp is at most end_timestamp.
C31_FusedTimingBounds ==
    /\ [][EmitStep =>
             LET sc == syscalls'[Len(syscalls')]
             IN  /\ sc.timestamp <= StepEntry.timestamp
                 /\ sc.duration >= StepEntry.duration
                 /\ sc.timestamp + sc.duration =
                        StepEntry.timestamp + StepEntry.duration]_vars
    /\ [](/\ \A i \in 1..Len(syscalls) :
                end_timestamp >= syscalls[i].timestamp + syscalls[i].duration
          /\ pc = "done" => start_timestamp <= end_timestamp)

\* An open was emitted with the timestamp of the first of a chain of three
\* lookups, which is earlier than its own, and a longer duration.
C31_Witness ==
    /\ pc = "done"
    /\ Len(syscalls) = 1
    /\ IsOpen(syscalls[1])
    /\ nlines = 4
    /\ syscalls[1].timestamp = 0
    /\ syscalls[1].duration > LastEntry.duration
    /\ LastEntry.timestamp >= 3000

----------------------------------------------------------------------------
(* The attribution of lookups.                                             *)

\* The number of entries that the queues of the paths hold together.
RECURSIVE QueuedOn(_, _)
QueuedOn(pending, paths) ==
    IF paths = {} THEN 0
    ELSE LET path == CHOOSE p \in paths : TRUE
         IN  Len(pending[path]) + QueuedOn(pending, paths \ {path})

Queued(pending) == QueuedOn(pending, DOMAIN pending)

\* What the step takes from the table and what it adds to it.
StepTaken == IF last'.take.called /\ last'.take.taken # 0 THEN 1 ELSE 0

StepAdded == IF last'.accepted /\ last'.fields[2] = "lookup" THEN 1 ELSE 0

\* C32: a step that fuses a pending lookup removes that entry, and only
\* that entry, from the queue of its path in the same step; a step removes
\* at most one entry and an accepted lookup adds exactly one, so the number
\* of queued entries changes by the entries added less the entries fused;
\* an entry that is fused goes into the one syscall that the step emits, or
\* into the one entry that a lookup queues, and a rejected line takes none.
C32_LookupAttributedOnce ==
    [][LineStep =>
          /\ Queued(_pending_lookups') =
                 Queued(_pending_lookups) + StepAdded - StepTaken
          /\ StepTaken = 1 =>
                /\ last'.accepted
                /\ last'.take.taken \in
                       1..Len(PendingFor(_pending_lookups, last'.take.path))
                /\ PendingFor(_pending_lookups', last'.take.path) =
                       RemoveAt(PendingFor(_pending_lookups, last'.take.path),
                                last'.take.taken)
                /\ IF last'.fields[2] = "lookup"
                   THEN last'.emitted = 0
                   ELSE last'.emitted = 1
          /\ StepTaken = 0 /\ StepAdded = 0 =>
                \A path \in DOMAIN _pending_lookups :
                    PendingFor(_pending_lookups', path) =
                        _pending_lookups[path]]_vars

\* A lookup was fused into the lookup of its child, that one into a third
\* lookup, and the third into an open: the table holds no entry.
C32_Witness ==
    /\ nlines = 4
    /\ pc = "lines"
    /\ LastOp = "open"
    /\ LastCoalesced
    /\ Len(syscalls) = 1
    /\ syscalls[1].timestamp = 0
    /\ Queued(_pending_lookups) = 0

----------------------------------------------------------------------------
(* Rejected lines and the open handles.                                    *)

\* C33: a line that is rejected leaves _open_fds as it was, so an open of
\* a uuid that no layer holds does not add its handle; an fsync or a
\* release is emitted only for a handle for which an open or a create was
\* emitted.
C33_RejectedOpenAddsNoHandle ==
    [][LineStep =>
          /\ ~last'.accepted => _open_fds' = _open_fds
          /\ (last'.fields[2] \in {"fsync", "release"} /\ last'.emitted = 1) =>
                \E i \in 1..Len(syscalls) :
                    /\ IsOpen(syscalls[i])
                    /\ syscalls[i].handle_id = StepEntry.handle_id]_vars

----------------------------------------------------------------------------
(* The count of unknown children.                                          *)

\* C34: unknown_children (size[1]) of every directory is never negative,
\* whatever the order of the lookups and the readdirs of the directory.
C34_UnknownChildrenNonNegative ==
    \A a \in 1..Len(sizes) : sizes[a][2] >= 0

----------------------------------------------------------------------------
(* The order of the initial layer.                                         *)

\* C35: the parent directory of every entry of initial_files is the mount
\* root or a directory that initial_files holds at an earlier position, so
\* that create_env can make the entries in the order of insertion.
C35_InitialLayerMaterialisable ==
    \A k \in 1..Len(initial_files) :
        \/ dirname(initial_files[k].v.path) = <<>>
        \/ \E j \in 1..(k - 1) :
              /\ initial_files[j].v.path = dirname(initial_files[k].v.path)
              /\ initial_files[j].v.type = "d"

----------------------------------------------------------------------------
(* The delays of replay.                                                   *)

\* C36: the delay that replay passes to sleep between two consecutive
\* syscalls is never negative, also for syscalls that overlap or that have
\* equal timestamps, so sleep never raises.
C36_DelayNeverNegative ==
    /\ pc # "ValueError"
    /\ \A k \in 1..Len(issued) : issued[k].delay >= 0

\* Replay slept between two syscalls of which the first ends after the
\* second starts, and between two syscalls of equal timestamps.
C36_Witness ==
    /\ \E k \in 1..Len(issued) :
          /\ issued[k].slept
          /\ syscalls[k].timestamp + syscalls[k].duration >
                 syscalls[k + 1].timestamp
          /\ syscalls[k].timestamp < syscalls[k + 1].timestamp
    /\ \E k \in 1..Len(issued) :
          /\ issued[k].slept
          /\ syscalls[k].timestamp = syscalls[k + 1].timestamp

----------------------------------------------------------------------------
(* The end of parse.                                                       *)

\* C37: after a valid mount line parse returns normally, with
\* start_timestamp set, also when no syscall was emitted: when only lookups
\* or lines that emit nothing follow the mount line, or no line at all.
C37_ParseReturns ==
    [][(pc = "lines" /\ pc' # "lines") => pc' = "done"]_vars

----------------------------------------------------------------------------
(* The parked iterators of replay.                                         *)

\* The number of iterators that the deques of c.scandirs hold together.
RECURSIVE ParkedFrom(_, _)
ParkedFrom(c, i) ==
    IF i > Len(c.scandirs) THEN 0
    ELSE Len(c.scandirs[i].iterators) + ParkedFrom(c, i + 1)

\* The readdirs at offset 0 among the syscalls that replay has issued.
FirstPages ==
    {k \in 1..Len(issued) :
        syscalls[k].op = "readdir" /\ syscalls[k].offset = 0}

\* The turn taken issues a readdir at an offset above 0 under which no
\* iterator is parked.
MissingTurn ==
    /\ TurnStep
    /\ syscalls[sc_index].op = "readdir"
    /\ syscalls[sc_index].offset > 0
    /\ Parked(ctx, syscalls[sc_index].path, syscalls[sc_index].offset) = <<>>

\* C38: a readdir at an offset above 0 takes the iterator it works on out
\* of its deque, so that a parked iterator is popped once and is held in
\* one slot only: the number of parked iterators falls by the one popped
\* and rises by the one parked; a readdir at an offset above 0 with no
\* iterator parked under (path, offset) fails and leaves ctx.scandirs as it
\* was; an iterator that raised StopIteration is not parked; and there are
\* never more parked iterators than readdirs at offset 0 issued so far.
C38_ParkedIterators ==
    /\ [][ReadDirTurn =>
             LET this == syscalls[sc_index]
                 popped == IF this.offset = 0 THEN 0 ELSE 1
                 stopped == TurnIterator < Min({this.entries_num, 128})
             IN  /\ ParkedFrom(ctx', 1) =
                        ParkedFrom(ctx, 1) - popped
                            + (IF stopped THEN 0 ELSE 1)
                 /\ this.offset > 0 =>
                        Len(Parked(ctx', this.path, this.offset)) =
                            Len(Parked(ctx, this.path, this.offset)) - 1
                 /\ stopped => ctx' = TurnPopped]_vars
    /\ [][MissingTurn => ~Turn.ok /\ ctx' = ctx]_vars
    /\ [](ParkedFrom(ctx, 1) <= Cardinality(FirstPages))

\* A readdir at offset 0 parked its iterator, and the readdir of the next
\* page popped it: nothing is parked.
C38_Witness ==
    /\ Len(issued) = 2
    /\ issued[1].ok /\ issued[2].ok
    /\ syscalls[1].op = "readdir" /\ syscalls[1].offset = 0
    /\ syscalls[2].op = "readdir" /\ syscalls[2].offset > 0
    /\ Len(ctx.scandirs) = 1
    /\ ParkedFrom(ctx, 1) = 0

=============================================================================
